---- MODULE Spec2Model ----
(***************************************************************************)
(* segspec: the dependency set, the directory walk and the NetworkPolicy   *)
(* renderers.                                                              *)
(*                                                                         *)
(* Go strings are modelled as sequences of one-character strings, so that  *)
(* formatting (fmt.Sprintf), comparison (<) and splitting act on the       *)
(* characters as they do in the program.                                   *)
(***************************************************************************)
EXTENDS Integers, Sequences, FiniteSets, TLC

VARIABLES
    ds,        \* the *model.DependencySet being built
    log,       \* history: every fact handed to ds.Add so far, in call order
    prev,      \* history: ds as it was before the last operation
    ret,       \* the last operation: its name, argument and returned value
    wpc,       \* Walk: "idle", "walking", "helm", "done"
    root,      \* Walk: the root argument
    warnings,  \* Walk: the []WalkWarning collected so far
    werr,      \* Walk: the error variable returned by Walk ("nil" or an error)
    charts,    \* Walk: chart directories that detectHelmCharts will find
    failed,    \* history: path of every failed parser call / chart render
    visited,   \* history: the directory entries handed to Walk's callback
    inp,       \* the argument of the functions applied on their own
    out        \* their results so far, by function name

vars == <<ds, log, prev, ret, wpc, root, warnings, werr, charts, failed, visited, inp, out>>

setVars == <<ds, log, prev, ret>>
walkVars == <<wpc, root, warnings, werr, charts, failed, visited>>
funVars == <<inp, out>>

----------------------------------------------------------------------------
(* Bounds of the model.                                                    *)

\* Number of facts handed to Add (directly or through Merge) in one run.
MaxAdds == 3
\* Number of facts in the set handed to Merge.
MaxOther == 2
\* Number of directory entries Walk's callback is invoked on.
MaxEntries == 3

----------------------------------------------------------------------------
(* Go strings.                                                             *)

Range(s) == {s[i] : i \in DOMAIN s}

\* The printable ASCII characters in code order, starting at code 32 (the
\* double quote, the backslash and the backtick are written as placeholders).
AsciiPrintable ==
    <<" ", "!", "<quote>", "#", "$", "%", "&", "'", "(", ")", "*", "+", ",", "-", ".", "/",
      "0", "1", "2", "3", "4", "5", "6", "7", "8", "9", ":", ";", "<", "=", ">", "?",
      "@", "A", "B", "C", "D", "E", "F", "G", "H", "I", "J", "K", "L", "M", "N", "O",
      "P", "Q", "R", "S", "T", "U", "V", "W", "X", "Y", "Z", "[", "<backslash>", "]", "^", "_",
      "<backtick>", "a", "b", "c", "d", "e", "f", "g", "h", "i", "j", "k", "l", "m", "n", "o",
      "p", "q", "r", "s", "t", "u", "v", "w", "x", "y", "z", "{", "|", "}", "~">>

\* The byte value of a character.
CodeOf ==
    [c \in Range(AsciiPrintable) |->
        31 + (CHOOSE i \in DOMAIN AsciiPrintable : AsciiPrintable[i] = c)]

\* Go's s < t on strings: bytewise lexicographic order.
RECURSIVE StrLess(_, _)
StrLess(s, t) ==
    IF t = <<>> THEN FALSE
    ELSE IF s = <<>> THEN TRUE
    ELSE IF Head(s) = Head(t) THEN StrLess(Tail(s), Tail(t))
    ELSE CodeOf[Head(s)] < CodeOf[Head(t)]

DecDigits == <<"0", "1", "2", "3", "4", "5", "6", "7", "8", "9">>

RECURSIVE NatToStr(_)
NatToStr(n) ==
    IF n < 10 THEN <<DecDigits[n + 1]>>
    ELSE NatToStr(n \div 10) \o <<DecDigits[(n % 10) + 1]>>

\* The %d verb of fmt on an int.
Itoa(n) == IF n < 0 THEN <<"-">> \o NatToStr(-n) ELSE NatToStr(n)

\* strings.Join
RECURSIVE Join(_, _)
Join(ss, sep) ==
    IF ss = <<>> THEN <<>>
    ELSE IF Len(ss) = 1 THEN ss[1]
    ELSE ss[1] \o sep \o Join(Tail(ss), sep)

Front(s) == SubSeq(s, 1, Len(s) - 1)
Last(s) == s[Len(s)]

----------------------------------------------------------------------------
(* internal/model: NetworkDependency and DependencySet.                    *)

\* NetworkDependency.Key: fmt.Sprintf("%s->%s:%d/%s", Source, Target, Port, Protocol)
Key(d) ==
    d.Source \o <<"-", ">">> \o d.Target \o <<":">> \o Itoa(d.Port) \o <<"/">> \o d.Protocol

NewDependencySet(name) == [ServiceName |-> name, deps |-> <<>>, seen |-> {}]

\* A plausible bug: a duplicate with High confidence replaces the stored fact.
AddUpgrading(s, dep) ==
    LET key == Key(dep) IN
    IF key \in s.seen
    THEN IF dep.Confidence = "high"
         THEN [s EXCEPT !.deps = [i \in DOMAIN s.deps |->
                                    IF Key(s.deps[i]) = key THEN dep ELSE s.deps[i]]]
         ELSE s
    ELSE [s EXCEPT !.seen = @ \cup {key}, !.deps = Append(@, dep)]

\* DependencySet.Add
Add(s, dep) ==
    LET key == Key(dep) IN
    IF key \in s.seen
    THEN s
    ELSE [s EXCEPT !.seen = @ \cup {key}, !.deps = Append(@, dep)]

\* DependencySet.Merge: Add of every fact of the other set, in its order.
RECURSIVE Merge(_, _)
Merge(s, otherDeps) ==
    IF otherDeps = <<>> THEN s
    ELSE Merge(Add(s, Head(otherDeps)), Tail(otherDeps))

\* A plausible bug: facts compared field by field, the port as a number.
KeyLessByFields(a, b) ==
    IF a.Source # b.Source THEN StrLess(a.Source, b.Source)
    ELSE IF a.Target # b.Target THEN StrLess(a.Target, b.Target)
    ELSE IF a.Port # b.Port THEN a.Port < b.Port
    ELSE StrLess(a.Protocol, b.Protocol)

\* The less function of the sorts: sorted[i].Key() < sorted[j].Key()
KeyLess(a, b) == StrLess(Key(a), Key(b))

\* sort.Slice by KeyLess (insertion sort: move x left while it is less).
RECURSIVE InsertByKey(_, _)
InsertByKey(sorted, x) ==
    IF sorted = <<>> THEN <<x>>
    ELSE IF KeyLess(x, Last(sorted))
         THEN Append(InsertByKey(Front(sorted), x), Last(sorted))
         ELSE Append(sorted, x)

RECURSIVE SortByKey(_)
SortByKey(s) ==
    IF s = <<>> THEN <<>> ELSE InsertByKey(SortByKey(Front(s)), Last(s))

\* DependencySet.Dependencies
Dependencies(s) == SortByKey(s.deps)

\* DependencySet.Len
DepLen(s) == Len(s.deps)

----------------------------------------------------------------------------
(* internal/renderer: NetworkPolicy YAML.                                  *)
(*                                                                         *)
(* The rendered text is a sequence of lines; each line is one Fprintf      *)
(* call: its format string and its arguments.                              *)

Line(f, a) == [f |-> f, a |-> a]
L0(f) == Line(f, <<>>)

IsUpperChar(c) == CodeOf[c] >= 65 /\ CodeOf[c] <= 90
IsLowerChar(c) == CodeOf[c] >= 97 /\ CodeOf[c] <= 122
IsDigitChar(c) == CodeOf[c] >= 48 /\ CodeOf[c] <= 57

\* strings.ToLower / strings.ToUpper on ASCII text
ToLower(s) == [i \in DOMAIN s |-> IF IsUpperChar(s[i]) THEN AsciiPrintable[CodeOf[s[i]] + 1] ELSE s[i]]
ToUpper(s) == [i \in DOMAIN s |-> IF IsLowerChar(s[i]) THEN AsciiPrintable[CodeOf[s[i]] - 63] ELSE s[i]]

\* strings.TrimRight(s, "-") and strings.Trim(s, "-")
RECURSIVE TrimRightHyphen(_)
TrimRightHyphen(s) ==
    IF s # <<>> /\ Last(s) = "-" THEN TrimRightHyphen(Front(s)) ELSE s

RECURSIVE TrimLeftHyphen(_)
TrimLeftHyphen(s) ==
    IF s # <<>> /\ Head(s) = "-" THEN TrimLeftHyphen(Tail(s)) ELSE s

TrimHyphen(s) == TrimRightHyphen(TrimLeftHyphen(s))

\* The Kubernetes name length limit sanitizeName truncates to.
MaxNameLen == 63

\* A plausible bug: sanitizeName without the second trim after truncation.
SanitizeNoRetrim(s0) ==
    LET lower == ToLower(s0)
        mapped == [i \in DOMAIN lower |->
                     IF IsLowerChar(lower[i]) \/ IsDigitChar(lower[i]) \/ lower[i] = "-"
                     THEN lower[i] ELSE "-"]
        trimmed == TrimHyphen(mapped)
        s == IF Len(trimmed) > 63 THEN SubSeq(trimmed, 1, 63) ELSE trimmed
    IN  IF s = <<>> THEN <<"u", "n", "k", "n", "o", "w", "n">> ELSE s

\* sanitizeName
sanitizeName(s0) ==
    LET lower == ToLower(s0)
        mapped == [i \in DOMAIN lower |->
                     IF IsLowerChar(lower[i]) \/ IsDigitChar(lower[i]) \/ lower[i] = "-"
                     THEN lower[i] ELSE "-"]
        trimmed == TrimHyphen(mapped)
        cut == IF Len(trimmed) > MaxNameLen THEN SubSeq(trimmed, 1, MaxNameLen) ELSE trimmed
        s == TrimRightHyphen(cut)
    IN  IF s = <<>> THEN <<"u", "n", "k", "n", "o", "w", "n">> ELSE s

\* sort.Strings of a set of distinct strings
RECURSIVE SortedStrings(_)
SortedStrings(S) ==
    IF S = {} THEN <<>>
    ELSE LET m == CHOOSE x \in S : \A y \in S \ {x} : StrLess(x, y)
         IN  <<m>> \o SortedStrings(S \ {m})

\* dedupeStrings: nil for no input, else the distinct strings, sorted
dedupeStrings(ss) == IF Len(ss) = 0 THEN <<>> ELSE SortedStrings(Range(ss))

\* strings.IndexByte(s, c): the position of the first c, 0 when there is none
FirstIndex(s, c) ==
    IF \E i \in DOMAIN s : s[i] = c
    THEN CHOOSE i \in DOMAIN s : s[i] = c /\ \A j \in 1..(i - 1) : s[j] # c
    ELSE 0

\* strings.Contains(s, ".")
ContainsDot(s) == FirstIndex(s, ".") # 0

\* strings.SplitN(s, ".", 3)
SplitN3(s) ==
    LET d1 == FirstIndex(s, ".") IN
    IF d1 = 0 THEN <<s>>
    ELSE LET rest == SubSeq(s, d1 + 1, Len(s))
             d2 == FirstIndex(rest, ".")
         IN  IF d2 = 0 THEN <<SubSeq(s, 1, d1 - 1), rest>>
             ELSE <<SubSeq(s, 1, d1 - 1), SubSeq(rest, 1, d2 - 1),
                    SubSeq(rest, d2 + 1, Len(rest))>>

\* The fields of s between the occurrences of the character c
RECURSIVE SplitChar(_, _)
SplitChar(s, c) ==
    LET d == FirstIndex(s, c) IN
    IF d = 0 THEN <<s>>
    ELSE <<SubSeq(s, 1, d - 1)>> \o SplitChar(SubSeq(s, d + 1, Len(s)), c)

RECURSIVE DecValue(_)
DecValue(s) == IF s = <<>> THEN 0 ELSE 10 * DecValue(Front(s)) + (CodeOf[Last(s)] - 48)

\* net.ParseIP, dotted-decimal form: four fields of one to three digits, no
\* leading zero, each at most 255.
IsIPv4(s) ==
    LET parts == SplitChar(s, ".") IN
    /\ Len(parts) = 4
    /\ \A i \in 1..4 :
          /\ Len(parts[i]) \in 1..3
          /\ \A j \in DOMAIN parts[i] : IsDigitChar(parts[i][j])
          /\ (Len(parts[i]) > 1 => parts[i][1] # "0")
          /\ DecValue(parts[i]) <= 255

IsHexChar(c) ==
    \/ IsDigitChar(c)
    \/ (CodeOf[c] >= 97 /\ CodeOf[c] <= 102)
    \/ (CodeOf[c] >= 65 /\ CodeOf[c] <= 70)

\* net.ParseIP, colon form: groups of one to four hex digits, eight of them,
\* or fewer with one "::" standing for the missing ones (the forms with a
\* zone or a trailing dotted-decimal part are not modelled).
IsIPv6(s) ==
    LET g == SplitChar(s, ":")
        n == Len(g)
        empty == {i \in 1..n : g[i] = <<>>}
    IN  /\ n >= 3
        /\ \A i \in 1..n : Len(g[i]) <= 4 /\ \A j \in DOMAIN g[i] : IsHexChar(g[i][j])
        /\ \/ empty = {} /\ n = 8
           \/ \E i \in 2..(n - 1) : empty = {i} /\ n <= 8
           \/ empty = {1, 2} /\ n <= 9
           \/ empty = {n - 1, n} /\ n <= 9
           \/ empty = {1, 2, 3} /\ n = 3

\* net.ParseIP(s) != nil
IsIP(s) == IsIPv4(s) \/ IsIPv6(s)

\* The egress dedup key: fmt.Sprintf("%s:%d:%s", dep.Target, dep.Port, dep.Protocol)
EgressKey(dep) == dep.Target \o <<":">> \o Itoa(dep.Port) \o <<":">> \o dep.Protocol

\* A plausible bug: only port 0 is skipped, a negative port is rendered.
SkipOnlyPortZero(dep) == dep.Port = 0

\* NetworkPolicy: if dep.Port <= 0 { skipped = append(...); continue }
SkipNoPort(dep) == dep.Port <= 0

\* NetworkPolicy: the loop that groups the egress rules and the skipped targets
RECURSIVE CollectEgress(_, _)
CollectEgress(deps, acc) ==
    IF deps = <<>> THEN acc
    ELSE LET dep == Head(deps) IN
         IF SkipNoPort(dep)
         THEN CollectEgress(Tail(deps), [acc EXCEPT !.skipped = Append(@, dep.Target)])
         ELSE IF EgressKey(dep) \in acc.seen
         THEN CollectEgress(Tail(deps), acc)
         ELSE CollectEgress(Tail(deps),
                [acc EXCEPT !.seen = @ \cup {EgressKey(dep)},
                            !.rules = Append(@, [target |-> dep.Target, port |-> dep.Port,
                                                 protocol |-> dep.Protocol])])

\* proto := strings.ToUpper(p); if proto == "" { proto = "TCP" }
RenderProto(p) == IF ToUpper(p) = <<>> THEN <<"T", "C", "P">> ELSE ToUpper(p)

PortsBlock(port, proto) ==
    << L0("      ports:\n"),
       Line("        - port: %d\n", <<port>>),
       Line("          protocol: %s\n", <<proto>>) >>

\* The selector block shared by renderEgressTo ("to") and renderIngressFrom ("from")
SelectorBlock(head, name) ==
    IF IsIP(name)
    THEN << L0(head), L0("        - ipBlock:\n"), Line("            cidr: %s/32\n", <<name>>) >>
    ELSE IF ContainsDot(name)
    THEN LET parts == SplitN3(name)
             svcName == parts[1]
             namespace == IF Len(parts) >= 2 THEN parts[2] ELSE <<>>
         IN  << L0(head), L0("        - podSelector:\n"), L0("            matchLabels:\n"),
                Line("              app: %s\n", <<svcName>>) >>
             \o (IF namespace # <<>>
                 THEN << L0("          namespaceSelector:\n"), L0("            matchLabels:\n"),
                         Line("              kubernetes.io/metadata.name: %s\n", <<namespace>>) >>
                 ELSE <<>>)
    ELSE << L0(head), L0("        - podSelector:\n"), L0("            matchLabels:\n"),
            Line("              app: %s\n", <<name>>) >>

renderEgressTo(target) == SelectorBlock("    - to:\n", target)
\* A plausible bug: renderIngressFrom without the test for an IP address.
IngressFromNoIP(source) ==
    IF ContainsDot(source)
    THEN << L0("    - from:\n"), L0("        - podSelector:\n"), L0("            matchLabels:\n"),
            Line("              app: %s\n", <<SplitN3(source)[1]>>) >>
    ELSE << L0("    - from:\n"), L0("        - podSelector:\n"), L0("            matchLabels:\n"),
            Line("              app: %s\n", <<source>>) >>

\* renderIngressFrom, from its own text
renderIngressFrom(source) ==
    IF IsIP(source)
    THEN << L0("    - from:\n"), L0("        - ipBlock:\n"),
            Line("            cidr: %s/32\n", <<source>>) >>
    ELSE IF ContainsDot(source)
    THEN LET parts == SplitN3(source)
             svcName == parts[1]
             namespace == IF Len(parts) >= 2 THEN parts[2] ELSE <<>>
         IN  << L0("    - from:\n"), L0("        - podSelector:\n"),
                L0("            matchLabels:\n"),
                Line("              app: %s\n", <<svcName>>) >>
             \o (IF namespace # <<>>
                 THEN << L0("          namespaceSelector:\n"), L0("            matchLabels:\n"),
                         Line("              kubernetes.io/metadata.name: %s\n", <<namespace>>) >>
                 ELSE <<>>)
    ELSE << L0("    - from:\n"), L0("        - podSelector:\n"), L0("            matchLabels:\n"),
            Line("              app: %s\n", <<source>>) >>

\* The DNS egress rule: port 53 UDP/TCP to the kube-system namespace
DNSRule ==
    << L0("    - to:\n"),
       L0("        - namespaceSelector:\n"),
       L0("            matchLabels:\n"),
       L0("              kubernetes.io/metadata.name: kube-system\n"),
       L0("      ports:\n"),
       L0("        - port: 53\n"),
       L0("          protocol: UDP\n"),
       L0("        - port: 53\n"),
       L0("          protocol: TCP\n") >>

\* A plausible bug: the DNS rule only when another rule was rendered.
DNSOnlyWithRules(rules) == IF rules = <<>> THEN <<>> ELSE DNSRule

\* NetworkPolicy: the DNS rule is written whatever the rules are
SingleDNS(rules) == DNSRule

RECURSIVE RenderSingleRules(_)
RenderSingleRules(rules) ==
    IF rules = <<>> THEN <<>>
    ELSE renderEgressTo(Head(rules).target)
         \o PortsBlock(Head(rules).port, RenderProto(Head(rules).protocol))
         \o RenderSingleRules(Tail(rules))

\* NetworkPolicy
NetworkPolicy(s) ==
    LET deps == Dependencies(s)
        got == CollectEgress(deps, [rules |-> <<>>, seen |-> {}, skipped |-> <<>>])
        skipped == dedupeStrings(got.skipped)
        svcName == sanitizeName(s.ServiceName)
    IN
    IF Len(deps) = 0 THEN <<>>
    ELSE << L0("# Review: verify podSelector labels match your deployment\n"),
            L0("apiVersion: networking.k8s.io/v1\n"),
            L0("kind: NetworkPolicy\n"),
            L0("metadata:\n"),
            Line("  name: %s-default-deny\n", <<svcName>>),
            L0("  labels:\n"),
            L0("    generated-by: segspec\n"),
            L0("spec:\n"),
            L0("  podSelector:\n"),
            L0("    matchLabels:\n"),
            Line("      app: %s\n", <<svcName>>),
            L0("  policyTypes:\n"),
            L0("    - Ingress\n"),
            L0("    - Egress\n"),
            \* (the dash of this comment line is an em dash in the source)
            L0("# Default deny policy - blocks all traffic not explicitly allowed above\n"),
            L0("---\n"),
            L0("apiVersion: networking.k8s.io/v1\n"),
            L0("kind: NetworkPolicy\n"),
            L0("metadata:\n"),
            Line("  name: %s-egress\n", <<svcName>>),
            L0("  labels:\n"),
            L0("    generated-by: segspec\n"),
            L0("spec:\n"),
            L0("  podSelector:\n"),
            L0("    matchLabels:\n"),
            Line("      app: %s\n", <<svcName>>),
            L0("  policyTypes:\n"),
            L0("    - Egress\n"),
            L0("  egress:\n") >>
         \o RenderSingleRules(got.rules)
         \o SingleDNS(got.rules)
         \o (IF Len(skipped) > 0
             THEN << Line("# Skipped (no port): %s\n", <<Join(skipped, <<",", " ">>)>>) >>
             ELSE <<>>)

\* DependencySet.IngressFor / EgressFor: the facts with that target / source,
\* in insertion order, then sort.Slice by key
IngressFor(s, service) == SortByKey(SelectSeq(s.deps, LAMBDA d : d.Target = service))
EgressFor(s, service) == SortByKey(SelectSeq(s.deps, LAMBDA d : d.Source = service))

\* A plausible bug: only the sources are taken as services.
SourcesOnly(deps) == {deps[i].Source : i \in DOMAIN deps} \ {<<>>}

\* PerServiceNetworkPolicy: every non-empty Source and Target is a service
AllServices(deps) ==
    ({deps[i].Source : i \in DOMAIN deps} \cup {deps[i].Target : i \in DOMAIN deps}) \ {<<>>}

\* PerServiceNetworkPolicy: one ingress rule per fact with a source; the
\* ports block only if the port is positive
RECURSIVE RenderIngress(_)
RenderIngress(ingress) ==
    IF ingress = <<>> THEN <<>>
    ELSE LET dep == Head(ingress) IN
         (IF dep.Source = <<>> THEN <<>>
          ELSE renderIngressFrom(dep.Source)
               \o (IF dep.Port > 0 THEN PortsBlock(dep.Port, RenderProto(dep.Protocol))
                   ELSE <<>>))
         \o RenderIngress(Tail(ingress))

\* PerServiceNetworkPolicy: one egress rule per fact with a positive port
RECURSIVE RenderEgress(_)
RenderEgress(egress) ==
    IF egress = <<>> THEN <<>>
    ELSE LET dep == Head(egress) IN
         (IF dep.Port <= 0 THEN <<>>
          ELSE renderEgressTo(dep.Target) \o PortsBlock(dep.Port, RenderProto(dep.Protocol)))
         \o RenderEgress(Tail(egress))

\* PerServiceNetworkPolicy: the policy document of one service
ServicePolicy(s, svc) ==
    LET svcName == sanitizeName(svc)
        egress == EgressFor(s, svc)
        ingress == IngressFor(s, svc)
    IN  << L0("apiVersion: networking.k8s.io/v1\n"),
           L0("kind: NetworkPolicy\n"),
           L0("metadata:\n"),
           Line("  name: %s-netpol\n", <<svcName>>),
           L0("  labels:\n"),
           L0("    generated-by: segspec\n"),
           L0("spec:\n"),
           L0("  podSelector:\n"),
           L0("    matchLabels:\n"),
           Line("      app: %s\n", <<svcName>>),
           L0("  policyTypes:\n"),
           L0("    - Ingress\n"),
           L0("    - Egress\n") >>
        \o (IF Len(ingress) > 0 THEN <<L0("  ingress:\n")>> \o RenderIngress(ingress) ELSE <<>>)
        \o (IF Len(egress) > 0
            THEN <<L0("  egress:\n")>> \o RenderEgress(egress) \o DNSRule
            ELSE <<>>)

RECURSIVE RenderServices(_, _, _)
RenderServices(s, serviceList, i) ==
    IF i > Len(serviceList) THEN <<>>
    ELSE (IF i > 1 THEN <<L0("---\n")>> ELSE <<>>)
         \o ServicePolicy(s, serviceList[i])
         \o RenderServices(s, serviceList, i + 1)

\* PerServiceNetworkPolicy
PerServiceNetworkPolicy(s) ==
    LET deps == Dependencies(s)
        serviceList == SortedStrings(AllServices(deps))
    IN  IF Len(deps) = 0 THEN <<>> ELSE RenderServices(s, serviceList, 1)

----------------------------------------------------------------------------
(* The facts and names the operations are driven with.                     *)

sWeb == <<"w", "e", "b">>
sApi == <<"a", "p", "i">>
sDb == <<"d", "b">>
sJob == <<"j", "o", "b">>
sCfg == <<"c", "f", "g">>
sBad == <<"b", "a", "d">>
sArrowDb == <<"x", "-", ">", "d", "b">>
sWebArrow == <<"w", "e", "b", "-", ">", "x">>
sTCP == <<"T", "C", "P">>
sUDP == <<"U", "D", "P">>

Fact(src, tgt, port, proto, desc, conf, file) ==
    [Source |-> src, Target |-> tgt, Port |-> port, Protocol |-> proto,
     Description |-> desc, Confidence |-> conf, SourceFile |-> file]

\* Facts as the extractors, tests and callers of the model package build them:
\* the same 4-tuple with different description and confidence, the same
\* (target, port) from several sources and with several spellings of the
\* protocol, ports whose decimal and numeric orders differ, ports <= 0, an
\* unresolved (empty) source, and names that contain the key's separators.
Facts ==
    { Fact(sWeb, sDb, 5432, sTCP, "PostgreSQL", "high", "docker-compose.yml"),
      Fact(sWeb, sDb, 5432, sTCP, "postgresql driver", "low", "pom.xml"),
      Fact(sApi, sDb, 5432, sTCP, "PostgreSQL", "medium", ".env"),
      Fact(sWeb, sDb, 5432, <<>>, "PostgreSQL", "medium", "db.properties"),
      Fact(sWeb, sDb, 80, sTCP, "http", "high", "application.yml"),
      Fact(sJob, sCfg, 0, sTCP, "configMapKeyRef", "medium", "k8s/job.yaml"),
      Fact(sWeb, sBad, -1, sUDP, "bad port", "medium", "k8s/web.yaml"),
      Fact(sWeb, sArrowDb, 5432, sTCP, "depends_on", "high", "docker-compose.yml"),
      Fact(sWebArrow, sDb, 5432, sTCP, "depends_on", "high", "docker-compose.yml"),
      Fact(<<>>, sDb, 5432, sTCP, "postgresql driver", "low", "build.gradle") }

\* The name a DependencySet is constructed with: one that sanitizeName changes.
ServiceNames == {<<"M", "y", " ", "A", "p", "p", "_">>}

SeqsUpTo(S, n) == UNION {[1..k -> S] : k \in 0..n}

\* The facts of the sets handed to Merge: one with the key of a fact of
\* Facts and other details, one from another source, one with another port,
\* one without a port.
OtherFacts ==
    { Fact(sWeb, sDb, 5432, sTCP, "postgresql driver", "low", "pom.xml"),
      Fact(sApi, sDb, 5432, sTCP, "PostgreSQL", "medium", ".env"),
      Fact(sWeb, sDb, 80, sTCP, "http", "high", "application.yml"),
      Fact(sJob, sCfg, 0, sTCP, "configMapKeyRef", "medium", "k8s/job.yaml") }

\* The fact lists of the sets handed to Merge: each is itself built by Add.
OtherDeps == {Merge(NewDependencySet(sApi), q).deps : q \in SeqsUpTo(OtherFacts, MaxOther)}

----------------------------------------------------------------------------
(* Operations on the set.                                                  *)

Call(op, arg, val) == [op |-> op, arg |-> arg, val |-> val]

WalkIdle ==
    /\ wpc = "idle"
    /\ root = <<>>
    /\ warnings = <<>>
    /\ werr = "nil"
    /\ charts = <<>>
    /\ failed = <<>>
    /\ visited = <<>>

FunIdle ==
    /\ inp = <<>>
    /\ out = <<>>

\* ds := model.NewDependencySet(name)
Init ==
    /\ \E name \in ServiceNames :
          /\ ds = NewDependencySet(name)
          /\ prev = NewDependencySet(name)
          /\ ret = Call("NewDependencySet", name, <<>>)
    /\ log = <<>>
    /\ WalkIdle
    /\ FunIdle

\* ds.Add(dep)
DoAdd ==
    /\ Len(log) < MaxAdds
    /\ \E dep \in Facts :
          /\ ds' = Add(ds, dep)
          /\ log' = Append(log, dep)
          /\ ret' = Call("Add", dep, <<>>)
    /\ prev' = ds
    /\ UNCHANGED walkVars
    /\ UNCHANGED funVars

\* ds.Merge(other)
DoMerge ==
    /\ \E other \in OtherDeps :
          /\ Len(log) + Len(other) <= MaxAdds
          /\ ds' = Merge(ds, other)
          /\ log' = log \o other
          /\ ret' = Call("Merge", other, <<>>)
    /\ prev' = ds
    /\ UNCHANGED walkVars
    /\ UNCHANGED funVars

\* ds.Dependencies()
DoDependencies ==
    /\ ret' = Call("Dependencies", <<>>, Dependencies(ds))
    /\ prev' = ds
    /\ UNCHANGED <<ds, log>>
    /\ UNCHANGED walkVars
    /\ UNCHANGED funVars

\* renderer.NetworkPolicy(ds)
DoNetworkPolicy ==
    /\ ret' = Call("NetworkPolicy", <<>>, NetworkPolicy(ds))
    /\ prev' = ds
    /\ UNCHANGED <<ds, log>>
    /\ UNCHANGED walkVars
    /\ UNCHANGED funVars

\* renderer.PerServiceNetworkPolicy(ds)
DoPerServiceNetworkPolicy ==
    /\ ret' = Call("PerServiceNetworkPolicy", <<>>, PerServiceNetworkPolicy(ds))
    /\ prev' = ds
    /\ UNCHANGED <<ds, log>>
    /\ UNCHANGED walkVars
    /\ UNCHANGED funVars

Next ==
    \/ DoAdd
    \/ DoMerge
    \/ DoDependencies
    \/ DoNetworkPolicy
    \/ DoPerServiceNetworkPolicy

Spec == Init /\ [][Next]_vars

----------------------------------------------------------------------------
(* Claims about the dependency set.                                        *)

Tuple(d) == <<d.Source, d.Target, d.Port, d.Protocol>>
Keys(s) == {Key(s[i]) : i \in DOMAIN s}
FirstWithKey(s, k) == CHOOSE i \in DOMAIN s : Key(s[i]) = k /\ \A j \in 1..(i - 1) : Key(s[j]) # k

\* C1: adding a fact whose key is already present leaves the set as it was
\* (same Len, same stored facts), and every stored fact is the first fact
\* with its key that was ever handed to Add, with that first fact's
\* description, confidence and sourceFile, whatever came later.
C1_AddKeepsFirstOccurrence ==
    /\ (ret.op = "Add" /\ Key(ret.arg) \in Keys(prev.deps)) =>
          /\ ds = prev
          /\ DepLen(ds) = DepLen(prev)
    /\ \A i \in DOMAIN ds.deps : ds.deps[i] = log[FirstWithKey(log, Key(ds.deps[i]))]
    /\ DepLen(ds) = Cardinality(Keys(log))

\* A fact with High confidence is added when a Low one with the same 4-tuple
\* is stored, and the Low one is still the stored one.
C1_Witness ==
    /\ ret.op = "Add"
    /\ ret.arg.Confidence = "high"
    /\ \E i \in DOMAIN ds.deps :
          /\ Tuple(ds.deps[i]) = Tuple(ret.arg)
          /\ ds.deps[i].Confidence = "low"
          /\ ds.deps[i].Description # ret.arg.Description

\* C2: Add discards a fact exactly when an earlier-added fact has an equal
\* (source, target, port, protocol) tuple.
C2_DiscardedIffEqualTuple ==
    ret.op = "Add" =>
        ((ds = prev) <=> \E j \in 1..(Len(log) - 1) : Tuple(log[j]) = Tuple(ret.arg))

\* C3: Dependencies() leaves the set as it was and returns every stored fact
\* exactly once, in strictly ascending bytewise order of the key string; the
\* order is strict, so the listing is fixed by the stored facts alone.
C3_DependenciesSortedByKey ==
    ret.op = "Dependencies" =>
        /\ ds = prev
        /\ Len(ret.val) = Len(ds.deps)
        /\ \A i \in DOMAIN ds.deps :
              Cardinality({j \in DOMAIN ret.val : ret.val[j] = ds.deps[i]}) = 1
        /\ \A i, j \in DOMAIN ret.val :
              i < j => StrLess(Key(ret.val[i]), Key(ret.val[j]))

\* A listing, after a Merge, whose order differs from the insertion order and
\* from the numeric order of the ports.
C3_Witness ==
    /\ ret.op = "Dependencies"
    /\ Len(ret.val) >= 3
    /\ ret.val # ds.deps
    /\ \E i, j \in DOMAIN ret.val :
          /\ i < j
          /\ ret.val[i].Source = ret.val[j].Source
          /\ ret.val[i].Target = ret.val[j].Target
          /\ ret.val[i].Port > ret.val[j].Port

----------------------------------------------------------------------------
(* internal/walker and internal/parser/registry: Walk.                     *)

sSlash == <<"/">>
sDot == <<".">>

\* skippedDirs
skippedDirs ==
    { <<"n", "o", "d", "e", "_", "m", "o", "d", "u", "l", "e", "s">>,
      <<"v", "e", "n", "d", "o", "r">>,
      <<"t", "a", "r", "g", "e", "t">>,
      <<".", "g", "i", "t">>,
      <<".", "s", "v", "n">>,
      <<"_", "_", "p", "y", "c", "a", "c", "h", "e", "_", "_">> }

RECURSIVE TrimRightSlash(_)
TrimRightSlash(s) ==
    IF s # <<>> /\ Last(s) = "/" THEN TrimRightSlash(Front(s)) ELSE s

\* The position of the last "/" of s, 0 when there is none
LastSlash(s) ==
    IF \E i \in DOMAIN s : s[i] = "/"
    THEN CHOOSE i \in DOMAIN s : s[i] = "/" /\ \A j \in (i + 1)..Len(s) : s[j] # "/"
    ELSE 0

\* filepath.Base
Base(path) ==
    IF path = <<>> THEN sDot
    ELSE LET p == TrimRightSlash(path) IN
         IF p = <<>> THEN sSlash
         ELSE SubSeq(p, LastSlash(p) + 1, Len(p))

\* filepath.Dir of a clean path
Dir(path) ==
    LET k == LastSlash(path) IN
    IF k = 0 THEN sDot
    ELSE IF k = 1 THEN sSlash
    ELSE SubSeq(path, 1, k - 1)

\* filepath.Clean of a root without "." or ".." elements
CleanRoot(r) ==
    IF r = <<>> THEN sDot
    ELSE IF TrimRightSlash(r) = <<>> THEN sSlash
    ELSE TrimRightSlash(r)

\* filepath.Join(root, rel): the path WalkDir hands to the callback
JoinPath(r, rel) ==
    IF CleanRoot(r) = sDot THEN rel
    ELSE IF CleanRoot(r) = sSlash THEN sSlash \o rel
    ELSE CleanRoot(r) \o sSlash \o rel

HasPrefix(s, pre) == Len(pre) <= Len(s) /\ SubSeq(s, 1, Len(pre)) = pre
HasSuffix(s, suf) == Len(suf) <= Len(s) /\ SubSeq(s, Len(s) - Len(suf) + 1, Len(s)) = suf

\* relPath, relErr := filepath.Rel(root, path); if relErr != nil { relPath = path }
\* for a path at or below the root
RelPath(r, path) ==
    LET c == CleanRoot(r) IN
    IF path = c THEN sDot
    ELSE IF c = sDot THEN path
    ELSE IF c = sSlash /\ HasPrefix(path, sSlash) THEN Tail(path)
    ELSE IF HasPrefix(path, c \o sSlash) THEN SubSeq(path, Len(c) + 2, Len(path))
    ELSE path

\* The patterns of the default registry, one per registered parser.
RegistryPatterns ==
    << <<"p", "o", "m", ".", "x", "m", "l">>,
       <<"b", "u", "i", "l", "d", ".", "g", "r", "a", "d", "l", "e">>,
       <<"b", "u", "i", "l", "d", ".", "g", "r", "a", "d", "l", "e", ".", "k", "t", "s">>,
       <<"d", "o", "c", "k", "e", "r", "-", "c", "o", "m", "p", "o", "s", "e", ".", "y", "m", "l">>,
       <<"d", "o", "c", "k", "e", "r", "-", "c", "o", "m", "p", "o", "s", "e", ".", "y", "a", "m", "l">>,
       <<"c", "o", "m", "p", "o", "s", "e", ".", "y", "m", "l">>,
       <<"c", "o", "m", "p", "o", "s", "e", ".", "y", "a", "m", "l">>,
       <<".", "e", "n", "v">>,
       <<"*", ".", "y", "a", "m", "l">>,
       <<"*", ".", "y", "m", "l">>,
       <<"a", "p", "p", "l", "i", "c", "a", "t", "i", "o", "n", ".", "y", "m", "l">>,
       <<"a", "p", "p", "l", "i", "c", "a", "t", "i", "o", "n", ".", "y", "a", "m", "l">>,
       <<"a", "p", "p", "l", "i", "c", "a", "t", "i", "o", "n", ".", "p", "r", "o", "p", "e", "r",
         "t", "i", "e", "s">> >>

\* filepath.Match for the patterns in use: a literal name, or "*" and a suffix
GlobMatch(pattern, name) ==
    IF pattern # <<>> /\ Head(pattern) = "*"
    THEN HasSuffix(name, Tail(pattern))
    ELSE name = pattern

\* Registry.Match: the registered parsers whose pattern matches the base name
Match(filename) ==
    SelectSeq([i \in DOMAIN RegistryPatterns |-> i],
              LAMBDA i : GlobMatch(RegistryPatterns[i], Base(filename)))

WalkWarning(file, err) == [File |-> file, Err |-> err]

\* A plausible bug: the source of a fact is left as the extractor gave it.
KeepSource(dep, serviceName) == dep

\* if deps[i].Source == "" { deps[i].Source = serviceName }
FillSource(dep, serviceName) ==
    IF dep.Source = <<>> THEN [dep EXCEPT !.Source = serviceName] ELSE dep

\* for i := range deps { ...; ds.Add(deps[i]) }
RECURSIVE AddDeps(_, _)
AddDeps(s, deps) ==
    IF deps = <<>> THEN s
    ELSE AddDeps(Add(s, FillSource(Head(deps), s.ServiceName)), Tail(deps))

\* A plausible bug: the callback returns the parse error, which ends the walk.
RECURSIVE RunParsersFatal(_, _, _, _)
RunParsersFatal(st, r, path, results) ==
    IF results = <<>> THEN st
    ELSE IF Head(results).err # "nil"
    THEN [st EXCEPT !.result = Head(results).err]
    ELSE RunParsersFatal([st EXCEPT !.ds = AddDeps(@, Head(results).deps)],
                         r, path, Tail(results))

\* Walk's callback on a file: every matching parser is called; an error
\* becomes a warning with the path relative to the root, the facts of the
\* others are added; the callback returns nil.
RECURSIVE RunParsers(_, _, _, _)
RunParsers(st, r, path, results) ==
    IF results = <<>> THEN st
    ELSE IF Head(results).err # "nil"
    THEN RunParsers([st EXCEPT !.warnings =
                        Append(@, WalkWarning(RelPath(r, path), Head(results).err))],
                    r, path, Tail(results))
    ELSE RunParsers([st EXCEPT !.ds = AddDeps(@, Head(results).deps)],
                    r, path, Tail(results))

\* Walk's loop body for one chart: a render error becomes a warning on the
\* chart's Chart.yaml, a parse error one on the chart directory, the facts of
\* a rendered chart are added.
HelmChart(st, r, chartDir, outcome) ==
    IF outcome.renderErr # "nil"
    THEN [st EXCEPT !.warnings =
             Append(@, WalkWarning(RelPath(r, chartDir)
                                     \o <<"/", "C", "h", "a", "r", "t", ".", "y", "a", "m", "l">>,
                                   outcome.renderErr))]
    ELSE IF outcome.err # "nil"
    THEN [st EXCEPT !.warnings = Append(@, WalkWarning(RelPath(r, chartDir), outcome.err))]
    ELSE [st EXCEPT !.ds = AddDeps(@, outcome.deps)]

\* Walk's callback for one directory entry: an inaccessible path and a
\* directory return at once, a file goes to every matching parser.
WalkFn(st, r, path, isDir, err, results) ==
    IF err # "nil" THEN st
    ELSE IF isDir
    THEN IF Base(path) \in skippedDirs THEN [st EXCEPT !.result = "SkipDir"] ELSE st
    ELSE RunParsers(st, r, path, results)

\* detectHelmCharts over the entries a walk of the root visits
RECURSIVE detectHelmCharts(_, _)
detectHelmCharts(r, entries) ==
    IF entries = <<>> THEN <<>>
    ELSE LET e == Head(entries)
             rest == detectHelmCharts(r, Tail(entries)) IN
         IF e.err = "nil" /\ ~e.dir
            /\ Base(e.path) = <<"C", "h", "a", "r", "t", ".", "y", "a", "m", "l">>
         THEN <<Dir(e.path)>> \o rest
         ELSE rest

----------------------------------------------------------------------------
(* The scanned trees and what the parsers and helm can answer.              *)

sApp == <<"a", "p", "p">>
sRedis == <<"r", "e", "d", "i", "s">>
sChartYaml == <<"C", "h", "a", "r", "t", ".", "y", "a", "m", "l">>

Roots ==
    { <<"/", "s", "r", "v", "/", "a", "p", "p">>,
      <<"a", "p", "p", "/">>,
      sDot,
      sSlash,
      <<"v", "e", "n", "d", "o", "r">> }

\* Directory entries in the order WalkDir visits them; parent is the index
\* of the directory an entry lies in, 0 for the root.
TreeEntries ==
    << [rel |-> sChartYaml, dir |-> FALSE, parent |-> 0],
       [rel |-> <<"a", "p", "p", "l", "i", "c", "a", "t", "i", "o", "n", ".", "y", "m", "l">>,
        dir |-> FALSE, parent |-> 0],
       [rel |-> <<"c", "h", "a", "r", "t">>, dir |-> TRUE, parent |-> 0],
       [rel |-> <<"c", "h", "a", "r", "t", "/">> \o sChartYaml, dir |-> FALSE, parent |-> 3],
       [rel |-> <<"n", "o", "d", "e", "_", "m", "o", "d", "u", "l", "e", "s">>,
        dir |-> TRUE, parent |-> 0],
       [rel |-> <<"n", "o", "d", "e", "_", "m", "o", "d", "u", "l", "e", "s", "/",
                  "p", "o", "m", ".", "x", "m", "l">>,
        dir |-> FALSE, parent |-> 5] >>

\* Facts as extractors emit them: most leave the source empty, the compose
\* and manifest extractors name it.
WalkDepLists ==
    { <<>>,
      << Fact(<<>>, sRedis, 6379, sTCP, "Redis", "high", "application.yml") >>,
      << Fact(sWeb, sDb, 5432, sTCP, "PostgreSQL", "high", "deployment.yaml"),
         Fact(<<>>, sRedis, 6379, sTCP, "Redis", "medium", "deployment.yaml") >> }

ParserResults ==
    { [err |-> "read failed", deps |-> <<>>] }
      \cup { [err |-> "nil", deps |-> q] : q \in WalkDepLists }

\* ParseK8sContent skips what it cannot decode and returns no error, so the
\* only failure of a chart is its rendering.
HelmOutcomes ==
    { [renderErr |-> "helm template failed", err |-> "nil", deps |-> <<>>] }
      \cup { [renderErr |-> "nil", err |-> "nil", deps |-> q] : q \in WalkDepLists }

RECURSIVE EmittedBy(_)
EmittedBy(results) ==
    IF results = <<>> THEN <<>>
    ELSE (IF Head(results).err = "nil" THEN Head(results).deps ELSE <<>>)
           \o EmittedBy(Tail(results))

RECURSIVE FailuresOf(_, _)
FailuresOf(rel, results) ==
    IF results = <<>> THEN <<>>
    ELSE (IF Head(results).err # "nil" THEN <<[rel |-> rel, of |-> "parser"]>> ELSE <<>>)
           \o FailuresOf(rel, Tail(results))

\* The entry can be the next one WalkDir reports: it comes after the last
\* one reported and its directory was entered.
Reportable(i) ==
    /\ \A k \in DOMAIN visited : visited[k].idx < i
    /\ \/ TreeEntries[i].parent = 0
       \/ \E k \in DOMAIN visited :
             /\ visited[k].idx = TreeEntries[i].parent
             /\ visited[k].err = "nil"
             /\ visited[k].result = "nil"

InitWalk ==
    /\ ds = NewDependencySet(<<>>)
    /\ prev = NewDependencySet(<<>>)
    /\ ret = Call("none", <<>>, <<>>)
    /\ log = <<>>
    /\ WalkIdle
    /\ FunIdle

\* Walk(root, registry): serviceName, the new set, and WalkDir's call of the
\* callback on the root itself.
WalkStart ==
    /\ wpc = "idle"
    /\ \E r \in Roots, err \in {"nil", "lstat failed"} :
          LET set == NewDependencySet(Base(r))
              st == WalkFn([ds |-> set, warnings |-> <<>>, result |-> "nil"],
                           r, CleanRoot(r), TRUE, err, <<>>) IN
          /\ root' = r
          /\ ds' = st.ds
          /\ warnings' = st.warnings
          /\ werr' = "nil"
          /\ visited' = << [idx |-> 0, path |-> CleanRoot(r), dir |-> TRUE,
                            err |-> err, result |-> st.result] >>
    /\ wpc' = "walking"
    /\ UNCHANGED <<log, prev, ret, charts, failed>>
    /\ UNCHANGED funVars

\* One call of the callback by WalkDir, on the next entry of the tree.
WalkEntry ==
    /\ wpc = "walking"
    /\ werr = "nil"
    /\ visited[1].err = "nil" /\ visited[1].result = "nil"
    /\ Len(visited) <= MaxEntries
    /\ \E i \in DOMAIN TreeEntries, err \in {"nil", "permission denied"} :
          /\ Reportable(i)
          /\ LET e == TreeEntries[i]
                 path == JoinPath(root, e.rel)
                 n == IF err = "nil" /\ ~e.dir THEN Len(Match(path)) ELSE 0 IN
             \E results \in [1..n -> ParserResults] :
                LET st == WalkFn([ds |-> ds, warnings |-> warnings, result |-> "nil"],
                                 root, path, e.dir, err, results) IN
                /\ ds' = st.ds
                /\ warnings' = st.warnings
                /\ werr' = IF st.result \in {"nil", "SkipDir"} THEN "nil" ELSE st.result
                /\ visited' = Append(visited, [idx |-> i, path |-> path, dir |-> e.dir,
                                               err |-> err, result |-> st.result])
                /\ log' = log \o EmittedBy(results)
                /\ failed' = failed \o FailuresOf(e.rel, results)
    /\ UNCHANGED <<prev, ret, wpc, root, charts>>
    /\ UNCHANGED funVars

\* WalkDir returned; charts := detectHelmCharts(root)
WalkDirDone ==
    /\ wpc = "walking"
    /\ charts' = detectHelmCharts(root, visited)
    /\ wpc' = "helm"
    /\ UNCHANGED <<ds, log, prev, ret, root, warnings, werr, failed, visited>>
    /\ UNCHANGED funVars

\* for _, chartDir := range charts { ... }
HelmStep ==
    /\ wpc = "helm"
    /\ charts # <<>>
    /\ \E outcome \in HelmOutcomes :
          LET st == HelmChart([ds |-> ds, warnings |-> warnings, result |-> "nil"],
                              root, Head(charts), outcome)
              e == CHOOSE v \in Range(visited) :
                      ~v.dir /\ v.err = "nil" /\ Dir(v.path) = Head(charts)
                         /\ Base(v.path) = sChartYaml IN
          /\ ds' = st.ds
          /\ warnings' = st.warnings
          /\ log' = log \o (IF outcome.renderErr = "nil" THEN outcome.deps ELSE <<>>)
          /\ failed' = failed \o (IF outcome.renderErr # "nil"
                                  THEN <<[rel |-> TreeEntries[e.idx].rel, of |-> "helm"]>>
                                  ELSE <<>>)
    /\ charts' = Tail(charts)
    /\ UNCHANGED <<prev, ret, wpc, root, werr, visited>>
    /\ UNCHANGED funVars

\* return ds, warnings, err
WalkReturn ==
    /\ wpc = "helm"
    /\ charts = <<>>
    /\ wpc' = "done"
    /\ ret' = Call("Walk", root, [ds |-> ds, warnings |-> warnings, err |-> werr])
    /\ UNCHANGED <<ds, log, prev, root, warnings, werr, charts, failed, visited>>
    /\ UNCHANGED funVars

NextWalk ==
    \/ WalkStart
    \/ WalkEntry
    \/ WalkDirDone
    \/ HelmStep
    \/ WalkReturn

SpecWalk == InitWalk /\ [][NextWalk]_vars

----------------------------------------------------------------------------
(* Reading a rendered text back: documents, rules, lines.                  *)

IsRender == ret.op \in {"NetworkPolicy", "PerServiceNetworkPolicy"}

FirstSeparator(lines) ==
    IF \E i \in DOMAIN lines : lines[i].f = "---\n"
    THEN CHOOSE i \in DOMAIN lines :
            lines[i].f = "---\n" /\ \A j \in 1..(i - 1) : lines[j].f # "---\n"
    ELSE 0

\* The YAML documents of a text: the lines between the "---" lines.
RECURSIVE SplitDocs(_)
SplitDocs(lines) ==
    LET k == FirstSeparator(lines) IN
    IF k = 0 THEN <<lines>>
    ELSE <<SubSeq(lines, 1, k - 1)>> \o SplitDocs(SubSeq(lines, k + 1, Len(lines)))

DocsOf(text) == IF text = <<>> THEN <<>> ELSE SplitDocs(text)

HasLine(doc, f) == \E i \in DOMAIN doc : doc[i].f = f
CountLines(doc, f) == Cardinality({i \in DOMAIN doc : doc[i].f = f})
ArgOfLine(doc, f) == doc[CHOOSE i \in DOMAIN doc : doc[i].f = f].a[1]

\* Lines that end a rule: the next rule, a section key, a comment.
RuleEnders ==
    {"    - to:\n", "    - from:\n", "  ingress:\n", "  egress:\n",
     "# Skipped (no port): %s\n",
     "# Default deny policy - blocks all traffic not explicitly allowed above\n"}

RuleAt(doc, i) ==
    LET after == {j \in (i + 1)..Len(doc) : doc[j].f \in RuleEnders}
        last == IF after = {} THEN Len(doc)
                ELSE (CHOOSE j \in after : \A k \in after : j <= k) - 1
    IN  SubSeq(doc, i, last)

\* The rules of a document that start with the given line, in text order.
RulesOf(doc, start) ==
    LET idx == SelectSeq([i \in 1..Len(doc) |-> i], LAMBDA i : doc[i].f = start)
    IN  [k \in DOMAIN idx |-> RuleAt(doc, idx[k])]

ToRules(doc) == RulesOf(doc, "    - to:\n")
FromRules(doc) == RulesOf(doc, "    - from:\n")
\* The egress rules other than the DNS rule.
AllowToRules(doc) == SelectSeq(ToRules(doc), LAMBDA r : r # DNSRule)

BothPolicyTypes(doc) ==
    /\ CountLines(doc, "  policyTypes:\n") = 1
    /\ CountLines(doc, "    - Ingress\n") = 1
    /\ CountLines(doc, "    - Egress\n") = 1

\* The rule that allows egress to a target on a port with a protocol, an
\* empty protocol being TCP and every protocol in upper case.
EgressRuleFor(target, port, protocol) ==
    renderEgressTo(target)
    \o << L0("      ports:\n"),
          Line("        - port: %d\n", <<port>>),
          Line("          protocol: %s\n",
               <<IF protocol = <<>> THEN sTCP ELSE ToUpper(protocol)>>) >>

PortArgs(text) == {text[i].a[1] : i \in {j \in DOMAIN text : text[j].f = "        - port: %d\n"}}

----------------------------------------------------------------------------
(* Claims about the renderers.                                             *)

SkippedTargets == {ds.deps[i].Target : i \in {j \in DOMAIN ds.deps : ds.deps[j].Port <= 0}}

\* C6: in both modes every rendered "port:" line carries the positive port of
\* a stored fact, so no fact with port <= 0 yields one; in single-service
\* mode the "# Skipped (no port):" comment is present exactly when a fact has
\* port <= 0 and lists the targets of those facts, each once, sorted.
C6_NoPortLineForPortZero ==
    /\ IsRender =>
          \A p \in PortArgs(ret.val) :
              p > 0 /\ \E i \in DOMAIN ds.deps : ds.deps[i].Port = p
    /\ (ret.op = "NetworkPolicy" /\ ret.val # <<>>) =>
          IF SkippedTargets = {}
          THEN ~HasLine(ret.val, "# Skipped (no port): %s\n")
          ELSE /\ CountLines(ret.val, "# Skipped (no port): %s\n") = 1
               /\ Last(ret.val).f = "# Skipped (no port): %s\n"
               /\ Last(ret.val).a[1] = Join(SortedStrings(SkippedTargets), <<",", " ">>)
    /\ ret.op = "PerServiceNetworkPolicy" => ~HasLine(ret.val, "# Skipped (no port): %s\n")

\* Both modes have rendered a set that holds a fact with port 0, one with a
\* negative port and one with a positive port.
C6_Witness ==
    /\ IsRender
    /\ \E i, j, k \in DOMAIN ds.deps :
          ds.deps[i].Port = 0 /\ ds.deps[j].Port < 0 /\ ds.deps[k].Port > 0
    /\ PortArgs(ret.val) # {}

\* C7: NetworkPolicy returns the empty text exactly for the empty set;
\* otherwise the text is two NetworkPolicy documents: a default-deny one with
\* policy types Ingress and Egress and no rules, and an egress one that holds
\* the DNS rule, whatever the ports of the facts.
C7_TwoPoliciesWithDNS ==
    ret.op = "NetworkPolicy" =>
        /\ (ret.val = <<>>) <=> (DepLen(ds) = 0)
        /\ DepLen(ds) > 0 =>
              LET docs == DocsOf(ret.val) IN
              /\ Len(docs) = 2
              /\ \A k \in 1..2 : CountLines(docs[k], "kind: NetworkPolicy\n") = 1
              /\ HasLine(docs[1], "  name: %s-default-deny\n")
              /\ BothPolicyTypes(docs[1])
              /\ ~HasLine(docs[1], "  ingress:\n") /\ ~HasLine(docs[1], "  egress:\n")
              /\ ToRules(docs[1]) = <<>> /\ FromRules(docs[1]) = <<>>
              /\ HasLine(docs[2], "  name: %s-egress\n")
              /\ CountLines(docs[2], "  egress:\n") = 1
              /\ Len(SelectSeq(ToRules(docs[2]), LAMBDA r : r = DNSRule)) = 1

\* A set whose facts all have port <= 0 has been rendered.
C7_Witness ==
    /\ ret.op = "NetworkPolicy"
    /\ DepLen(ds) >= 2
    /\ \A i \in DOMAIN ds.deps : ds.deps[i].Port <= 0
    /\ ret.val # <<>>

NamedServices ==
    ({ds.deps[i].Source : i \in DOMAIN ds.deps} \cup {ds.deps[i].Target : i \in DOMAIN ds.deps})
        \ {<<>>}

IngressFacts(svc) == {i \in DOMAIN ds.deps : ds.deps[i].Target = svc /\ ds.deps[i].Source # <<>>}
EgressFacts(svc) == {i \in DOMAIN ds.deps : ds.deps[i].Source = svc /\ ds.deps[i].Port > 0}

IsPrefix(a, b) == Len(a) <= Len(b) /\ SubSeq(b, 1, Len(a)) = a

\* C9: PerServiceNetworkPolicy renders one document per name that is the
\* source or the target of a stored fact, in ascending bytewise order of the
\* names, each with policy types Ingress and Egress; the ingress rules of a
\* service's document are one per fact whose target is the service (and whose
\* source is known), selecting that fact's source, and its egress rules other
\* than the DNS rule are one per fact whose source is the service (and whose
\* port is positive), to that fact's target and port; no other fact yields a
\* rule in it.
C9_OnePolicyPerService ==
    ret.op = "PerServiceNetworkPolicy" =>
        LET docs == DocsOf(ret.val)
            order == SortedStrings(NamedServices)
        IN
        /\ Len(docs) = Cardinality(NamedServices)
        /\ \A k \in DOMAIN docs :
              /\ k > 1 => StrLess(order[k - 1], order[k])
              /\ CountLines(docs[k], "kind: NetworkPolicy\n") = 1
              /\ ArgOfLine(docs[k], "  name: %s-netpol\n") = sanitizeName(order[k])
              /\ BothPolicyTypes(docs[k])
              /\ Len(FromRules(docs[k])) = Cardinality(IngressFacts(order[k]))
              /\ \A i \in IngressFacts(order[k]) :
                    \E r \in Range(FromRules(docs[k])) :
                        /\ IsPrefix(renderIngressFrom(ds.deps[i].Source), r)
                        /\ PortArgs(r) \subseteq {ds.deps[i].Port}
              /\ \A r \in Range(FromRules(docs[k])) :
                    \E i \in IngressFacts(order[k]) :
                        /\ IsPrefix(renderIngressFrom(ds.deps[i].Source), r)
                        /\ PortArgs(r) \subseteq {ds.deps[i].Port}
              /\ Len(AllowToRules(docs[k])) = Cardinality(EgressFacts(order[k]))
              /\ Range(AllowToRules(docs[k])) =
                    {EgressRuleFor(ds.deps[i].Target, ds.deps[i].Port, ds.deps[i].Protocol) :
                        i \in EgressFacts(order[k])}

\* Three services, one of them only a target, one with two ingress facts.
C9_Witness ==
    /\ ret.op = "PerServiceNetworkPolicy"
    /\ Len(DocsOf(ret.val)) >= 3
    /\ \E svc \in NamedServices :
          /\ Cardinality(IngressFacts(svc)) >= 2
          /\ \A i \in DOMAIN ds.deps : ds.deps[i].Source # svc
    /\ \E svc \in NamedServices : EgressFacts(svc) # {}

\* C10: in per-service mode a document holds the DNS rule only if it holds
\* at least one other egress rule.
C10_DNSOnlyWithOtherEgress ==
    ret.op = "PerServiceNetworkPolicy" =>
        \A k \in DOMAIN DocsOf(ret.val) :
            LET doc == DocsOf(ret.val)[k] IN
            (\E r \in Range(ToRules(doc)) : r = DNSRule) => AllowToRules(doc) # <<>>

----------------------------------------------------------------------------
(* Claims about Walk.                                                       *)

\* The path a warning names, without a leading "./"
StripDotSlash(f) == IF HasPrefix(f, <<".", "/">>) THEN SubSeq(f, 3, Len(f)) ELSE f

\* C4: during Walk every parser call that fails on a file, and every chart
\* whose rendering fails, adds exactly one warning, in order, naming the path
\* of that file relative to the root (for a chart: of its Chart.yaml); the
\* walk is not aborted, every fact the other calls emitted is in the set, and
\* Walk returns the set, the warnings and a nil error.
C4_WalkFailuresAreWarnings ==
    wpc # "idle" =>
        /\ Len(warnings) = Len(failed)
        /\ \A i \in DOMAIN failed :
              IF failed[i].of = "parser"
              THEN warnings[i].File = failed[i].rel
              ELSE StripDotSlash(warnings[i].File) = failed[i].rel
        /\ werr = "nil"
        /\ \A i \in DOMAIN log :
              \E j \in DOMAIN ds.deps :
                 /\ ds.deps[j].Target = log[i].Target
                 /\ ds.deps[j].Port = log[i].Port
                 /\ ds.deps[j].Protocol = log[i].Protocol
        /\ wpc = "done" =>
              /\ ret.val.err = "nil"
              /\ ret.val.warnings = warnings
              /\ ret.val.ds = ds

\* A walk of "app/" has returned: one parser failed on application.yml, the
\* rendering of the chart visited after it failed too, and two facts are in
\* the set.
C4_Witness ==
    /\ wpc = "done"
    /\ root = <<"a", "p", "p", "/">>
    /\ Len(failed) = 2
    /\ failed[1] = [rel |-> TreeEntries[2].rel, of |-> "parser"]
    /\ failed[2] = [rel |-> TreeEntries[4].rel, of |-> "helm"]
    /\ Len(warnings) = 2
    /\ Len(ret.val.ds.deps) = 2

\* C5: in the set Walk returns, ServiceName is the base name of the root and
\* no fact has an empty source: the stored facts are exactly the emitted
\* ones, with ServiceName as the source where the extractor left it empty
\* and the extractor's source otherwise.
C5_WalkedFactsHaveSource ==
    wpc = "done" =>
        LET set == ret.val.ds
            Resolved(e) == << IF e.Source = <<>> THEN set.ServiceName ELSE e.Source,
                              e.Target, e.Port, e.Protocol >> IN
        /\ set.ServiceName = Base(root)
        /\ set.ServiceName # <<>>
        /\ \A j \in DOMAIN set.deps : set.deps[j].Source # <<>>
        /\ {Tuple(set.deps[j]) : j \in DOMAIN set.deps} = {Resolved(log[i]) : i \in DOMAIN log}

\* A walk of "/srv/app" has returned a set named "app" that holds a fact
\* emitted without a source, now from "app", and one emitted from "web".
C5_Witness ==
    /\ wpc = "done"
    /\ root = <<"/", "s", "r", "v", "/", "a", "p", "p">>
    /\ ret.val.ds.ServiceName = sApp
    /\ \E i \in DOMAIN log : log[i].Source = <<>>
    /\ \E j \in DOMAIN ret.val.ds.deps :
          Tuple(ret.val.ds.deps[j]) = <<sApp, sRedis, 6379, sTCP>>
    /\ \E j \in DOMAIN ret.val.ds.deps :
          Tuple(ret.val.ds.deps[j]) = <<sWeb, sDb, 5432, sTCP>>

----------------------------------------------------------------------------
(* Functions applied on their own: the selector of a target.                *)

\* Length of the target strings enumerated character by character.
MaxTargetLen == 7

TargetChars == {"1", ".", "a"}

\* Every string of up to MaxTargetLen characters of TargetChars (so that
\* "1.1.1.1", "a.a.a", "a..a" and ".a" are among them), and some colon-form
\* addresses and names.
SelectorInputs ==
    SeqsUpTo(TargetChars, MaxTargetLen)
      \cup { <<":", ":", "1">>, <<"a", ":", ":", "1">>, <<"1", ":", "1">>,
             <<"1", ":", "1", ":", "1", ":", "1", ":", "1", ":", "1", ":", "1", ":", "1">>,
             sDb, <<"d", "b", ".", "p", "r", "o", "d">>,
             <<"p", "g", "-", "0", ".", "p", "g", ".", "d", "b", ".", "s", "v", "c">> }

FunInit(inputs) ==
    /\ ds = NewDependencySet(<<>>)
    /\ prev = NewDependencySet(<<>>)
    /\ ret = Call("none", <<>>, <<>>)
    /\ log = <<>>
    /\ WalkIdle
    /\ inp \in inputs
    /\ out = <<>>

\* out with the result of one more function
Applied(name, val) == (name :> val) @@ out
Has(name) == name \in DOMAIN out

InitSelector == FunInit(SelectorInputs)

\* renderEgressTo(&b, inp)
DoRenderEgressTo ==
    /\ ~Has("renderEgressTo")
    /\ out' = Applied("renderEgressTo", renderEgressTo(inp))
    /\ UNCHANGED <<inp, setVars, walkVars>>

\* renderIngressFrom(&b, inp)
DoRenderIngressFrom ==
    /\ ~Has("renderIngressFrom")
    /\ out' = Applied("renderIngressFrom", renderIngressFrom(inp))
    /\ UNCHANGED <<inp, setVars, walkVars>>

NextSelector ==
    \/ DoRenderEgressTo
    \/ DoRenderIngressFrom

SpecSelector == InitSelector /\ [][NextSelector]_vars

\* The selector lines the rules give for a string: ipBlock for an address,
\* else pod label (and namespace label) from the dot-separated components,
\* else the pod label verbatim.
SelectorOf(s) ==
    IF IsIP(s)
    THEN << L0("        - ipBlock:\n"), Line("            cidr: %s/32\n", <<s>>) >>
    ELSE IF \E i \in DOMAIN s : s[i] = "."
    THEN LET comp == SplitChar(s, ".") IN
         << L0("        - podSelector:\n"), L0("            matchLabels:\n"),
            Line("              app: %s\n", <<comp[1]>>) >>
         \o (IF comp[2] # <<>>
             THEN << L0("          namespaceSelector:\n"), L0("            matchLabels:\n"),
                     Line("              kubernetes.io/metadata.name: %s\n", <<comp[2]>>) >>
             ELSE <<>>)
    ELSE << L0("        - podSelector:\n"), L0("            matchLabels:\n"),
            Line("              app: %s\n", <<s>>) >>

\* C11: for every string renderEgressTo and renderIngressFrom write the same
\* selector after their "to:" / "from:" line: an ipBlock with /32 for an IP
\* address; else, for a string with a dot, a pod label on the text before
\* the first dot and, when the second component is not empty, a namespace
\* label on it; else a pod label on the string itself.
C11_SameSelectorToAndFrom ==
    /\ Has("renderEgressTo") =>
          /\ Head(out["renderEgressTo"]) = L0("    - to:\n")
          /\ Tail(out["renderEgressTo"]) = SelectorOf(inp)
    /\ Has("renderIngressFrom") =>
          /\ Head(out["renderIngressFrom"]) = L0("    - from:\n")
          /\ Tail(out["renderIngressFrom"]) = SelectorOf(inp)
    /\ (Has("renderEgressTo") /\ Has("renderIngressFrom")) =>
          Tail(out["renderEgressTo"]) = Tail(out["renderIngressFrom"])

\* Both functions were applied to "1.1.1.1" and wrote an ipBlock.
C11_Witness ==
    /\ inp = <<"1", ".", "1", ".", "1", ".", "1">>
    /\ Has("renderEgressTo") /\ Has("renderIngressFrom")
    /\ out["renderIngressFrom"][2] = L0("        - ipBlock:\n")
    /\ out["renderEgressTo"][3] = Line("            cidr: %s/32\n", <<inp>>)

----------------------------------------------------------------------------
(* Functions applied on their own: sanitizeName.                            *)

\* Length of the enumerated end of a name.
MaxTailLen == 3

NameChars == {"a", "Z", "9", "-", "_", " "}

RECURSIVE Rep(_, _)
Rep(c, n) == IF n = 0 THEN <<>> ELSE <<c>> \o Rep(c, n - 1)

\* Names: at most one character, then no or many "a" (so that the name
\* reaches the length limit), then up to MaxTailLen characters.
SanitizeInputs ==
    { pre \o Rep("a", n) \o post :
        pre \in SeqsUpTo(NameChars, 1), n \in {0, 60, 62}, post \in SeqsUpTo(NameChars, MaxTailLen) }

InitSanitize == FunInit(SanitizeInputs)

\* sanitizeName(inp)
DoSanitizeName ==
    /\ ~Has("sanitizeName")
    /\ out' = Applied("sanitizeName", sanitizeName(inp))
    /\ UNCHANGED <<inp, setVars, walkVars>>

\* sanitizeName applied to its own result
DoSanitizeAgain ==
    /\ Has("sanitizeName")
    /\ ~Has("again")
    /\ out' = Applied("again", sanitizeName(out["sanitizeName"]))
    /\ UNCHANGED <<inp, setVars, walkVars>>

NextSanitize ==
    \/ DoSanitizeName
    \/ DoSanitizeAgain

SpecSanitize == InitSanitize /\ [][NextSanitize]_vars

IsNameChar(c) ==
    c \in {"a", "b", "c", "d", "e", "f", "g", "h", "i", "j", "k", "l", "m", "n", "o", "p", "q",
           "r", "s", "t", "u", "v", "w", "x", "y", "z",
           "0", "1", "2", "3", "4", "5", "6", "7", "8", "9", "-"}

\* C12: sanitizeName returns 1 to 63 characters of [a-z0-9-] that neither
\* begin nor end with "-"; it returns "unknown" when the input has no letter
\* or digit; applying it to its result changes nothing.
C12_SanitizeNameValidAndIdempotent ==
    /\ Has("sanitizeName") =>
          LET r == out["sanitizeName"] IN
          /\ Len(r) >= 1 /\ Len(r) <= 63
          /\ \A i \in DOMAIN r : IsNameChar(r[i])
          /\ r[1] # "-" /\ r[Len(r)] # "-"
          /\ (\A i \in DOMAIN inp : inp[i] \in {"-", "_", " "})
                => r = <<"u", "n", "k", "n", "o", "w", "n">>
    /\ Has("again") => out["again"] = out["sanitizeName"]

\* sanitizeName was applied twice to a name of 64 characters whose 63rd is a
\* hyphen: the result has 62.
C12_Witness ==
    /\ Has("again")
    /\ inp = Rep("a", 62) \o <<"-", "Z">>
    /\ out["sanitizeName"] = Rep("a", 62)

----------------------------------------------------------------------------
(* internal/parser: the recognizers of values (parseJDBC,                   *)
(* extractFromValue, extractDepsFromValue).                                 *)

IsAlnumChar(c) == IsUpperChar(c) \/ IsLowerChar(c) \/ IsDigitChar(c)
\* \w
IsWordChar(c) == IsAlnumChar(c) \/ c = "_"

\* s[a..b], empty when the range is
Slice(s, a, b) ==
    IF a > b \/ a > Len(s) THEN <<>>
    ELSE SubSeq(s, a, IF b > Len(s) THEN Len(s) ELSE b)

\* The end of the longest run of characters satisfying P that starts at i
\* (i - 1 when s[i] does not satisfy it): what a greedy P* or P+ consumes.
RunEnd(s, i, P(_)) ==
    CHOOSE j \in (i - 1)..Len(s) :
        /\ \A k \in i..j : P(s[k])
        /\ (j = Len(s) \/ ~P(s[j + 1]))

\* strconv.Atoi of a run of digits short enough not to overflow
Atoi(digits) == DecValue(digits)

NoMatch == [ok |-> FALSE]
NoDep == [ok |-> FALSE]

\* jdbcPattern.FindStringSubmatch: ^jdbc:(\w+)://([^/:]+)(?::(\d+))?
JdbcMatch(raw) ==
    IF ~HasPrefix(raw, <<"j", "d", "b", "c", ":">>) THEN NoMatch
    ELSE LET d1 == RunEnd(raw, 6, IsWordChar)
             h0 == d1 + 4
             IsHostChar(c) == c \notin {"/", ":"}
             h1 == RunEnd(raw, h0, IsHostChar)
             p1 == RunEnd(raw, h1 + 2, IsDigitChar) IN
         IF d1 < 6 \/ Slice(raw, d1 + 1, d1 + 3) # <<":", "/", "/">> \/ h1 < h0 THEN NoMatch
         ELSE [ok |-> TRUE,
               driver |-> Slice(raw, 6, d1),
               host |-> Slice(raw, h0, h1),
               port |-> IF Slice(raw, h1 + 1, h1 + 1) = <<":">> /\ p1 >= h1 + 2
                        THEN Slice(raw, h1 + 2, p1) ELSE <<>>]

\* jdbcDefaultPorts
jdbcDefaultPorts ==
    (<<"p", "o", "s", "t", "g", "r", "e", "s", "q", "l">> :> 5432) @@ (<<"p", "o", "s", "t", "g",
        "r", "e", "s">> :> 5432) @@ (<<"m", "y", "s", "q", "l">> :> 3306)
      @@ (<<"m", "a", "r", "i", "a", "d", "b">> :> 3306) @@ (<<"o", "r", "a", "c", "l",
          "e">> :> 1521) @@ (<<"s", "q", "l", "s", "e", "r", "v", "e", "r">> :> 1433)
      @@ (<<"m", "s", "s", "q", "l">> :> 1433)

\* jdbcSkipDrivers
jdbcSkipDrivers == {<<"h", "2">>, <<"d", "e", "r", "b", "y">>}

\* jdbcDescriptions
jdbcDescriptions ==
    (<<"p", "o", "s", "t", "g", "r", "e", "s", "q", "l">> :> <<"P", "o", "s", "t", "g", "r", "e",
        "S", "Q", "L">>) @@ (<<"p", "o", "s", "t", "g", "r", "e", "s">> :> <<"P", "o", "s", "t",
            "g", "r", "e", "S", "Q", "L">>)
      @@ (<<"m", "y", "s", "q", "l">> :> <<"M", "y", "S", "Q", "L">>) @@ (<<"m", "a", "r", "i",
          "a", "d", "b">> :> <<"M", "a", "r", "i", "a", "D", "B">>)
      @@ (<<"s", "q", "l", "s", "e", "r", "v", "e", "r">> :> <<"S", "Q", "L", " ", "S", "e", "r",
          "v", "e", "r">>) @@ (<<"o", "r", "a", "c", "l", "e">> :> <<"O", "r", "a", "c", "l",
              "e">>) @@ (<<"h", "2">> :> <<"H", "2">>)

\* A fact as an extractor builds it, before Walk fills in the source
Dep(src, tgt, port, desc, conf, file) ==
    [ok |-> TRUE,
     dep |-> [Source |-> src, Target |-> tgt, Port |-> port, Protocol |-> sTCP,
              Description |-> desc, Confidence |-> conf, SourceFile |-> file]]

\* A plausible bug: the default port of a driver is reported like an
\* explicit one.
JDBCDefaultAsHigh(raw, sourceFile) ==
    LET m == JdbcMatch(raw) IN
    IF ~m.ok \/ ToLower(m.driver) \in jdbcSkipDrivers THEN NoDep
    ELSE IF m.port # <<>>
    THEN Dep(<<>>, m.host, Atoi(m.port), ToLower(m.driver), "high", sourceFile)
    ELSE IF ToLower(m.driver) \notin DOMAIN jdbcDefaultPorts THEN NoDep
    ELSE Dep(<<>>, m.host, jdbcDefaultPorts[ToLower(m.driver)], ToLower(m.driver), "high",
             sourceFile)

\* parseJDBC
parseJDBC(raw, sourceFile) ==
    LET matches == JdbcMatch(raw) IN
    IF ~matches.ok THEN NoDep
    ELSE LET driver == ToLower(matches.driver)
             host == matches.host
             desc == IF driver \in DOMAIN jdbcDescriptions THEN jdbcDescriptions[driver]
                     ELSE driver IN
         IF driver \in jdbcSkipDrivers THEN NoDep
         ELSE IF matches.port # <<>>
         THEN Dep(<<>>, host, Atoi(matches.port), desc, "high", sourceFile)
         ELSE IF driver \notin DOMAIN jdbcDefaultPorts THEN NoDep
         ELSE Dep(<<>>, host, jdbcDefaultPorts[driver], desc, "medium", sourceFile)

\* strings.Index(s, sub) by character: the first position of c at or after
\* from, 0 when there is none
IndexFrom(s, c, from) ==
    IF \E i \in from..Len(s) : s[i] = c
    THEN CHOOSE i \in from..Len(s) : s[i] = c /\ \A j \in from..(i - 1) : s[j] # c
    ELSE 0

\* strings.LastIndex(s, c), 0 when there is none
LastIndex(s, c) ==
    IF \E i \in DOMAIN s : s[i] = c
    THEN CHOOSE i \in DOMAIN s : s[i] = c /\ \A j \in (i + 1)..Len(s) : s[j] # c
    ELSE 0

IsLetterChar(c) == IsUpperChar(c) \/ IsLowerChar(c)
IsSchemeChar(c) == IsAlnumChar(c) \/ c \in {"+", "-", "."}
\* The characters net/url accepts unescaped in a host
IsURLHostChar(c) ==
    IsAlnumChar(c) \/ c \in {"-", "_", ".", "~", "!", "$", "&", "'", "(", ")", "*", "+", ",",
                             ";", "=", ":", "[", "]", "<", ">"}
\* The characters net/url accepts in user information
IsUserinfoChar(c) ==
    IsAlnumChar(c) \/ c \in {"-", ".", "_", ":", "~", "!", "$", "&", "'", "(", ")", "*", "+",
                             ",", ";", "=", "%", "@"}

\* validOptionalPort: empty, or a colon and digits only
validOptionalPort(port) ==
    port = <<>> \/ (Head(port) = ":" /\ \A i \in 2..Len(port) : IsDigitChar(port[i]))

\* getScheme: the scheme before the first colon when the text up to it is a
\* letter followed by scheme characters
getScheme(raw) ==
    LET k == RunEnd(raw, 1, IsSchemeChar) IN
    IF k < Len(raw) /\ raw[k + 1] = ":"
    THEN IF k = 0 THEN [err |-> "missing protocol scheme"]
         ELSE IF IsLetterChar(raw[1])
         THEN [err |-> "nil", scheme |-> Slice(raw, 1, k), rest |-> Slice(raw, k + 2, Len(raw))]
         ELSE [err |-> "nil", scheme |-> <<>>, rest |-> raw]
    ELSE [err |-> "nil", scheme |-> <<>>, rest |-> raw]

\* The text before the first c, all of it when there is none
Before(s, c) == IF IndexFrom(s, c, 1) = 0 THEN s ELSE Slice(s, 1, IndexFrom(s, c, 1) - 1)

\* parseHost, after the user information
ParseHost(scheme, host) ==
    IF LastIndex(host, ":") # 0 /\ ~validOptionalPort(Slice(host, LastIndex(host, ":"), Len(host)))
    THEN [err |-> "invalid port"]
    ELSE IF \E i \in DOMAIN host : ~IsURLHostChar(host[i])
    THEN [err |-> "invalid character in host name"]
    ELSE [err |-> "nil", Scheme |-> scheme, Host |-> host]

\* parseAuthority: user information up to the last "@", then the host
ParseAuthority(scheme, authority) ==
    IF \E i \in 1..(LastIndex(authority, "@") - 1) : ~IsUserinfoChar(authority[i])
    THEN [err |-> "invalid userinfo"]
    ELSE ParseHost(scheme, Slice(authority, LastIndex(authority, "@") + 1, Len(authority)))

\* The rest of url.Parse once scheme and query are cut off
ParseRest(scheme, rest) ==
    IF ~HasPrefix(rest, <<"/">>)
    THEN IF scheme # <<>> THEN [err |-> "nil", Scheme |-> scheme, Host |-> <<>>]
         ELSE IF IndexFrom(Before(rest, "/"), ":", 1) # 0
         THEN [err |-> "first path segment in URL cannot contain colon"]
         ELSE [err |-> "nil", Scheme |-> scheme, Host |-> <<>>]
    ELSE IF HasPrefix(rest, <<"/", "/">>) /\ (scheme # <<>> \/ ~HasPrefix(rest, <<"/", "/", "/">>))
    THEN ParseAuthority(scheme, Before(Slice(rest, 3, Len(rest)), "/"))
    ELSE [err |-> "nil", Scheme |-> scheme, Host |-> <<>>]

\* url.Parse after getScheme: the scheme in lower case, the query cut off
ParseScheme(g) ==
    IF g.err # "nil" THEN g ELSE ParseRest(ToLower(g.scheme), Before(g.rest, "?"))

\* url.Parse for values without fragment, escapes or bracketed hosts: the
\* scheme, then either an opaque rest, or "//" and an authority with optional
\* user information and port.
ParseURL(raw) == ParseScheme(getScheme(raw))

\* u.Hostname() and u.Port()
Hostname(u) ==
    LET c == LastIndex(u.Host, ":") IN
    IF c # 0 /\ validOptionalPort(Slice(u.Host, c, Len(u.Host)))
    THEN Slice(u.Host, 1, c - 1) ELSE u.Host

URLPort(u) ==
    LET c == LastIndex(u.Host, ":") IN
    IF c # 0 /\ validOptionalPort(Slice(u.Host, c, Len(u.Host)))
    THEN Slice(u.Host, c + 1, Len(u.Host)) ELSE <<>>

\* [-a-zA-Z0-9_.] and [-a-zA-Z0-9.]
IsHostClassU(c) == IsAlnumChar(c) \/ c \in {"-", "_", "."}
IsHostClass(c) == IsAlnumChar(c) \/ c \in {"-", "."}

\* The match of host and port once the end e of the host and the end d of
\* the digits are known: the port is the first two to five digits.
HostPortGroups(s, i, e, d) ==
    IF d - (e + 1) >= 2
    THEN [ok |-> TRUE, host |-> Slice(s, i, e),
          port |-> Slice(s, e + 2, IF d > e + 6 THEN e + 6 ELSE d),
          end |-> IF d > e + 6 THEN e + 6 ELSE d]
    ELSE NoMatch

\* The match when the host is s[i..e]: at least min characters after the
\* first, and a colon after the host.
HostPortWithHost(s, i, e, min) ==
    IF e - i >= min /\ Slice(s, e + 1, e + 1) = <<":">>
    THEN HostPortGroups(s, i, e, RunEnd(s, e + 2, IsDigitChar))
    ELSE NoMatch

\* A match of ([a-zA-Z0-9]C{min,}):(\d{2,5}) that starts at i: the host
\* is the whole run of C from i, a colon follows it, and the port is the
\* first two to five digits after the colon.
HostPortAt(s, i, C(_), min) ==
    IF i <= Len(s) /\ IsAlnumChar(s[i])
    THEN HostPortWithHost(s, i, RunEnd(s, i + 1, C), min)
    ELSE NoMatch

\* The least element of a set of numbers
MinOf(S) == CHOOSE x \in S : \A y \in S : x <= y

\* FindStringSubmatch: the match with the leftmost start at or after from
FirstHostPort(s, from, C(_), min) ==
    LET starts == {i \in from..Len(s) : HostPortAt(s, i, C, min).ok} IN
    IF starts = {} THEN NoMatch ELSE HostPortAt(s, MinOf(starts), C, min)

\* hostPortPattern.FindStringSubmatch: ([a-zA-Z0-9][-a-zA-Z0-9_.]+):(\d{2,5})
hostPortPattern(s) == FirstHostPort(s, 1, IsHostClassU, 1)

\* hostPortRe.FindStringSubmatch: ([a-zA-Z0-9][-a-zA-Z0-9.]*):(\d{2,5})
hostPortRe(s) == FirstHostPort(s, 1, IsHostClass, 0)

\* hostPortRe.FindAllStringSubmatch(s, -1): the matches from left to right,
\* each search starting after the match before
RECURSIVE hostPortReAllFrom(_, _)
hostPortReAllFrom(s, from) ==
    LET m == FirstHostPort(s, from, IsHostClass, 0) IN
    IF ~m.ok THEN <<>> ELSE <<m>> \o hostPortReAllFrom(s, m.end + 1)

hostPortReAll(s) == hostPortReAllFrom(s, 1)

sSvcClusterLocal == <<".", "s", "v", "c", ".", "c", "l", "u", "s", "t", "e", "r", ".", "l", "o",
    "c", "a", "l">>

\* [-a-zA-Z0-9]
IsLabelChar(c) == IsAlnumChar(c) \/ c = "-"

\* A match of k8sDNSRe that starts at i with a first group ending at a: the
\* group is within [-a-zA-Z0-9.], a dot follows, then the whole run of
\* [-a-zA-Z0-9] as the second group, then ".svc.cluster.local".
K8sDNSAt(s, i, a) ==
    LET n == RunEnd(s, a + 3, IsLabelChar) IN
    /\ IsAlnumChar(s[i])
    /\ \A k \in (i + 1)..a : IsHostClass(s[k])
    /\ Slice(s, a + 1, a + 1) = <<".">>
    /\ a + 2 <= Len(s) /\ IsAlnumChar(s[a + 2])
    /\ Slice(s, n + 1, n + Len(sSvcClusterLocal)) = sSvcClusterLocal

\* k8sDNSRe.FindStringSubmatch:
\* ([a-zA-Z0-9][-a-zA-Z0-9.]*)\.([a-zA-Z0-9][-a-zA-Z0-9]*)\.svc\.cluster\.local
\* the leftmost start, and from it the longest first group (it is greedy).
k8sDNSRe(s) ==
    LET Starts == {i \in DOMAIN s : \E a \in i..Len(s) : K8sDNSAt(s, i, a)} IN
    IF Starts = {} THEN NoMatch
    ELSE LET i == CHOOSE x \in Starts : \A y \in Starts : x <= y
             Ends == {a \in i..Len(s) : K8sDNSAt(s, i, a)}
             a == CHOOSE x \in Ends : \A y \in Ends : y <= x IN
         [ok |-> TRUE, svc |-> Slice(s, i, a),
          ns |-> Slice(s, a + 2, RunEnd(s, a + 3, IsLabelChar))]

sHttpService == <<"H", "T", "T", "P", " ", "s", "e", "r", "v", "i", "c", "e">>
sNetworkService == <<"n", "e", "t", "w", "o", "r", "k", " ", "s", "e", "r", "v", "i", "c", "e">>

\* extractFromValue: JDBC, then an http(s) URL, then bare host:port
extractFromValue(val, sourceFile) ==
    LET j == parseJDBC(val, sourceFile)
        isHttp == HasPrefix(val, <<"h", "t", "t", "p", ":", "/", "/">>) \/ HasPrefix(val, <<"h",
            "t", "t", "p", "s", ":", "/", "/">>)
        u == ParseURL(val)
        matches == hostPortPattern(val) IN
    IF j.ok THEN j
    ELSE IF isHttp /\ u.err = "nil" /\ u.Host # <<>>
    THEN Dep(<<>>, Hostname(u),
             IF URLPort(u) # <<>> THEN Atoi(URLPort(u))
             ELSE IF u.Scheme = <<"h", "t", "t", "p", "s">> THEN 443 ELSE 80,
             sHttpService, "high", sourceFile)
    ELSE IF matches.ok
    THEN Dep(<<>>, matches.host, Atoi(matches.port), sNetworkService, "medium", sourceFile)
    ELSE NoDep

\* The URL schemes extractDepsFromValue accepts
K8sURLSchemes ==
    {<<"h", "t", "t", "p">>, <<"h", "t", "t", "p", "s">>, <<"p", "o", "s", "t", "g", "r", "e",
        "s", "q", "l">>, <<"p", "o", "s", "t", "g", "r", "e", "s">>, <<"r", "e", "d", "i",
            "s">>, <<"a", "m", "q", "p">>, <<"m", "o", "n", "g", "o", "d", "b">>,
     <<"m", "y", "s", "q", "l">>, <<"k", "a", "f", "k", "a">>}

\* The facts of the host:port matches that pass the filter
RECURSIVE HostPortDeps(_, _, _, _, _)
HostPortDeps(ms, source, context, confidence, path) ==
    IF ms = <<>> THEN <<>>
    ELSE LET host == Head(ms).host
             port == Atoi(Head(ms).port)
             rest == HostPortDeps(Tail(ms), source, context, confidence, path) IN
         IF HasPrefix(host, <<"s", "h", "a">>) \/ port < 1 \/ port > 65535 THEN rest
         ELSE << Dep(source, host, port,
                     context \o <<":", " ", "h", "o", "s", "t", ":", "p", "o", "r", "t",
                         " ">> \o host \o <<":">> \o Itoa(port),
                     confidence, path).dep >> \o rest

\* extractDepsFromValue: a URL of an accepted scheme, then a cluster DNS
\* name, then every host:port
extractDepsFromValue(value, source, context, confidence, path) ==
    LET u == ParseURL(value)
        dns == k8sDNSRe(value)
        hp == hostPortRe(value) IN
    IF u.err = "nil" /\ u.Host # <<>> /\ u.Scheme \in K8sURLSchemes
    THEN << Dep(source, Hostname(u), IF URLPort(u) # <<>> THEN Atoi(URLPort(u)) ELSE 0,
                context \o <<":", " ", "U", "R", "L", " ">> \o value, confidence, path).dep >>
    ELSE IF dns.ok
    THEN << Dep(source, dns.svc \o <<".">> \o dns.ns, IF hp.ok THEN Atoi(hp.port) ELSE 0,
                context \o <<":", " ", "K", "8", "s", " ", "s", "e", "r", "v", "i", "c", "e", " ",
                    "D", "N", "S", " ">> \o value, confidence, path).dep >>
    ELSE HostPortDeps(hostPortReAll(value), source, context, confidence, path)

----------------------------------------------------------------------------
(* Functions applied on their own: the recognizers of values.               *)

\* A port as written and as a number; NoPort when the value has none.
NoPort == [t |-> <<>>, n |-> 0]
PortsWritten ==
    { [t |-> <<"5", "4", "3", "2">>, n |-> 5432], [t |-> <<"8",
        "0">>, n |-> 80], [t |-> <<"9">>, n |-> 9],
      [t |-> <<"0", "0">>, n |-> 0], [t |-> <<"6", "5", "5", "3",
          "5">>, n |-> 65535], [t |-> <<"6", "5", "5", "3", "6">>, n |-> 65536],
      [t |-> <<"9", "9", "9", "9", "9">>, n |-> 99999] }

ColonPort(p) == IF p.t = <<>> THEN <<>> ELSE <<":">> \o p.t

JdbcDrivers ==
    {<<"p", "o", "s", "t", "g", "r", "e", "s", "q", "l">>, <<"p", "o", "s", "t", "g", "r", "e",
        "s">>, <<"m", "y", "s", "q", "l">>, <<"m", "a", "r", "i", "a", "d", "b">>, <<"o", "r",
            "a", "c", "l", "e">>, <<"s", "q", "l", "s", "e", "r", "v", "e", "r">>, <<"m", "s",
                "s", "q", "l">>,
     <<"h", "2">>, <<"d", "e", "r", "b", "y">>, <<"d", "b", "2">>, <<"m", "o", "n", "g", "o", "d",
         "b">>}

\* jdbc:<driver>://<host>[:<port>][/...]
JdbcValues ==
    { [kind |-> "jdbc", driver |-> d, host |-> h, port |-> p,
       text |-> <<"j", "d", "b", "c", ":">> \o d \o <<":", "/",
           "/">> \o h \o ColonPort(p) \o tail] :
        d \in JdbcDrivers, h \in {<<"d", "b", "-", "h", "o", "s", "t">>, <<"1", "0", ".", "0",
            ".", "0", ".", "5">>},
        p \in {NoPort, [t |-> <<"5", "4", "3", "2">>, n |-> 5432], [t |-> <<"1", "5", "2",
            "7">>, n |-> 1527],
               [t |-> <<"9">>, n |-> 9]},
        tail \in {<<>>, <<"/", "m", "y", "d", "b">>} }

\* The embedded forms of h2 and derby, and h2 in server mode
EmbeddedJdbcValues ==
    { [kind |-> "jdbc-embedded", driver |-> <<"h", "2">>, host |-> <<>>, port |-> NoPort,
       text |-> <<"j", "d", "b", "c", ":", "h", "2", ":", "m", "e", "m", ":", "t", "e", "s", "t",
           "d", "b">>],
      [kind |-> "jdbc-embedded", driver |-> <<"d", "e", "r", "b",
          "y">>, host |-> <<>>, port |-> NoPort,
       text |-> <<"j", "d", "b", "c", ":", "d", "e", "r", "b", "y", ":", "m", "e", "m", "o", "r",
           "y", ":", "t", "e", "s", "t", "d", "b", ";", "c", "r", "e", "a", "t", "e", "=", "t",
               "r", "u", "e">>],
      [kind |-> "jdbc-embedded", driver |-> <<"h", "2">>, host |-> <<"l", "o", "c", "a", "l", "h",
          "o", "s", "t">>,
       port |-> [t |-> <<"9", "0", "9", "2">>, n |-> 9092],
       text |-> <<"j", "d", "b", "c", ":", "h", "2", ":", "t", "c", "p", ":", "/", "/", "l", "o",
           "c", "a", "l", "h", "o", "s", "t", ":", "9", "0", "9", "2", "/", "~", "/", "t", "e",
               "s", "t">>] }

\* <scheme>://[<user>:<password>@]<host>[:<port>][/...]
UrlValues ==
    { [kind |-> "url", driver |-> sch, host |-> h, port |-> p, userinfo |-> ui,
       text |-> sch \o <<":", "/", "/">> \o ui \o h \o ColonPort(p) \o tail] :
        sch \in {<<"h", "t", "t", "p">>, <<"h", "t", "t", "p", "s">>, <<"r", "e", "d", "i",
            "s">>, <<"a", "m", "q", "p">>, <<"f", "t", "p">>},
        ui \in {<<>>, <<"g", "u", "e", "s", "t", ":", "1", "2", "3", "4", "5", "@">>},
        h \in {<<"a", "p", "i", ".", "e", "x", "a", "m", "p", "l", "e", ".", "c", "o",
            "m">>, <<"c", "a", "c", "h", "e">>, <<"a", "p", "i", ".", "p", "r", "o", "d", ".",
                "s", "v", "c", ".", "c", "l", "u", "s", "t", "e", "r", ".", "l", "o", "c", "a",
                    "l">>},
        p \in {NoPort, [t |-> <<"8", "0", "8", "0">>, n |-> 8080]},
        tail \in {<<>>, <<"/", "v", "1">>} }

\* <host>:<port>
BareValues ==
    { [kind |-> "hostport", driver |-> <<>>, host |-> h, port |-> p,
       text |-> h \o ColonPort(p)] :
        h \in {<<"d", "b">>, <<"r", "e", "d", "i", "s", "-", "m", "a", "s", "t", "e",
            "r">>, <<"m", "y", "_", "h", "o", "s", "t">>, <<"s", "h", "a", "2", "5", "6">>, <<"s",
                "h", "a", "r", "d", "-", "1">>, <<"a">>},
        p \in PortsWritten }

\* <service>.<namespace>.svc.cluster.local[:<port>]
DnsValues ==
    { [kind |-> "dns", driver |-> <<>>, host |-> svc \o <<".">> \o ns \o sSvcClusterLocal,
       service |-> svc, namespace |-> ns, port |-> p,
       text |-> svc \o <<".">> \o ns \o sSvcClusterLocal \o ColonPort(p)] :
        svc \in {<<"a", "p", "i">>, <<"p", "o", "s", "t", "g", "r", "e", "s", "-", "0", ".", "p",
            "o", "s", "t", "g", "r", "e", "s">>}, ns \in {<<"p", "r", "o", "d">>, <<"d", "b">>},
        p \in {NoPort, [t |-> <<"5", "4", "3", "2">>, n |-> 5432]} }

ValueInputs == JdbcValues \cup EmbeddedJdbcValues \cup UrlValues \cup BareValues \cup DnsValues

InitValue == FunInit(ValueInputs)

\* parseJDBC(cfg.Spring.Datasource.URL, path)
DoParseJDBC ==
    /\ ~Has("parseJDBC")
    /\ out' = Applied("parseJDBC", parseJDBC(inp.text, "application.yml"))
    /\ UNCHANGED <<inp, setVars, walkVars>>

\* extractFromValue(val, path)
DoExtractFromValue ==
    /\ ~Has("extractFromValue")
    /\ out' = Applied("extractFromValue", extractFromValue(inp.text, "application.yml"))
    /\ UNCHANGED <<inp, setVars, walkVars>>

\* extractDepsFromValue(value, workloadName, envName, model.High, path)
DoExtractDepsFromValue ==
    /\ ~Has("extractDepsFromValue")
    /\ out' = Applied("extractDepsFromValue",
                      extractDepsFromValue(inp.text, sWeb, <<"D", "B", "_", "U", "R",
                          "L">>, "high", "k8s/web.yaml"))
    /\ UNCHANGED <<inp, setVars, walkVars>>

\* renderEgressTo(&b, dep.Target) for the fact of the value
DoRenderValueTarget ==
    /\ Has("extractDepsFromValue")
    /\ out["extractDepsFromValue"] # <<>>
    /\ ~Has("renderEgressTo")
    /\ out' = Applied("renderEgressTo", renderEgressTo(out["extractDepsFromValue"][1].Target))
    /\ UNCHANGED <<inp, setVars, walkVars>>

NextValue ==
    \/ DoParseJDBC
    \/ DoExtractFromValue
    \/ DoExtractDepsFromValue
    \/ DoRenderValueTarget

SpecValue == InitValue /\ [][NextValue]_vars

\* The default ports of the drivers, as the rule states them
DriverDefault(d) ==
    CASE d \in {<<"p", "o", "s", "t", "g", "r", "e", "s", "q", "l">>, <<"p", "o", "s", "t", "g",
        "r", "e", "s">>} -> 5432
      [] d \in {<<"m", "y", "s", "q", "l">>, <<"m", "a", "r", "i", "a", "d", "b">>} -> 3306
      [] d = <<"o", "r", "a", "c", "l", "e">> -> 1521
      [] d \in {<<"s", "q", "l", "s", "e", "r", "v", "e", "r">>, <<"m", "s", "s", "q",
          "l">>} -> 1433
      [] OTHER -> 0

\* C13: for jdbc:<driver>://<host>[:<port>] with a driver other than h2 and
\* derby, parseJDBC gives the host with the written port at high confidence;
\* without a port, the driver's default port at medium confidence, and no
\* fact when the driver has no default.
C13_JDBCPortAndConfidence ==
    (Has("parseJDBC") /\ inp.kind = "jdbc" /\ inp.driver \notin {<<"h", "2">>, <<"d", "e", "r",
        "b", "y">>}) =>
        LET r == out["parseJDBC"] IN
        IF inp.port # NoPort
        THEN r.ok /\ r.dep.Target = inp.host /\ r.dep.Port = inp.port.n
                  /\ r.dep.Confidence = "high"
        ELSE IF DriverDefault(inp.driver) # 0
        THEN r.ok /\ r.dep.Target = inp.host /\ r.dep.Port = DriverDefault(inp.driver)
                  /\ r.dep.Confidence = "medium"
        ELSE ~r.ok

\* parseJDBC was applied to jdbc:mysql://db-host/mydb and gave db-host:3306
\* at medium confidence.
C13_Witness ==
    /\ Has("parseJDBC")
    /\ inp.text = <<"j", "d", "b", "c", ":", "m", "y", "s", "q", "l", ":", "/", "/", "d", "b",
        "-", "h", "o", "s", "t", "/", "m", "y", "d", "b">>
    /\ out["parseJDBC"].ok
    /\ out["parseJDBC"].dep.Port = 3306
    /\ out["parseJDBC"].dep.Confidence = "medium"

\* C14: a JDBC URL with driver h2 or derby gives no fact, whether it goes
\* through parseJDBC, through extractFromValue or through
\* extractDepsFromValue, whatever host and port it holds.
C14_EmbeddedJDBCYieldsNoFact ==
    (inp.kind \in {"jdbc", "jdbc-embedded"} /\ inp.driver \in {<<"h", "2">>, <<"d", "e", "r", "b",
        "y">>}) =>
        /\ Has("parseJDBC") => ~out["parseJDBC"].ok
        /\ Has("extractFromValue") => ~out["extractFromValue"].ok
        /\ Has("extractDepsFromValue") => out["extractDepsFromValue"] = <<>>

\* A host that the bare host:port rule must reject
ShaHost(h) == HasPrefix(h, <<"s", "h", "a">>)

\* C15: for a value <host>:<port>, every fact of extractFromValue and of
\* extractDepsFromValue has a port from 1 to 65535 and a host that does not
\* begin with "sha"; a value with such a host or a port outside the range
\* gives no fact.
C15_BareHostPortChecked ==
    inp.kind = "hostport" =>
        /\ Has("extractFromValue") =>
              IF out["extractFromValue"].ok
              THEN /\ out["extractFromValue"].dep.Port \in 1..65535
                   /\ ~ShaHost(out["extractFromValue"].dep.Target)
                   /\ ~ShaHost(inp.host) /\ inp.port.n \in 1..65535
              ELSE TRUE
        /\ Has("extractDepsFromValue") =>
              /\ \A i \in DOMAIN out["extractDepsFromValue"] :
                    /\ out["extractDepsFromValue"][i].Port \in 1..65535
                    /\ ~ShaHost(out["extractDepsFromValue"][i].Target)
              /\ (ShaHost(inp.host) \/ inp.port.n \notin 1..65535) =>
                    out["extractDepsFromValue"] = <<>>

\* C16: an http URL without a port gives a fact with port 80 and an https
\* URL without a port one with port 443, from extractFromValue and from
\* extractDepsFromValue alike; a URL of another scheme without a port gives
\* no fact from extractFromValue.
C16_DefaultPortByScheme ==
    (inp.kind = "url" /\ inp.port = NoPort) =>
        LET default == IF inp.driver = <<"h", "t", "t", "p">> THEN 80 ELSE 443 IN
        IF inp.driver \in {<<"h", "t", "t", "p">>, <<"h", "t", "t", "p", "s">>}
        THEN /\ Has("extractFromValue") =>
                   /\ out["extractFromValue"].ok
                   /\ out["extractFromValue"].dep.Target = inp.host
                   /\ out["extractFromValue"].dep.Port = default
             /\ Has("extractDepsFromValue") =>
                   /\ Len(out["extractDepsFromValue"]) = 1
                   /\ out["extractDepsFromValue"][1].Target = inp.host
                   /\ out["extractDepsFromValue"][1].Port = default
        ELSE Has("extractFromValue") => ~out["extractFromValue"].ok

\* The service and the namespace of the cluster DNS name a value holds
HoldsClusterDNS(v) ==
    \/ v.kind = "dns"
    \/ v.kind = "url" /\ HasSuffix(v.host, sSvcClusterLocal)
DNSService(v) == IF v.kind = "dns" THEN v.service ELSE <<"a", "p", "i">>
DNSNamespace(v) == IF v.kind = "dns" THEN v.namespace ELSE <<"p", "r", "o", "d">>

\* C17: for a value that holds <service>.<namespace>.svc.cluster.local,
\* alone, with a port or inside a URL, extractDepsFromValue gives one fact
\* with target <service>.<namespace>, and renderEgressTo writes for that
\* target the pod label <service> and the namespace label <namespace>.
C17_ClusterDNSTargetAndSelector ==
    HoldsClusterDNS(inp) =>
        /\ Has("extractDepsFromValue") =>
              /\ Len(out["extractDepsFromValue"]) = 1
              /\ out["extractDepsFromValue"][1].Target =
                     DNSService(inp) \o <<".">> \o DNSNamespace(inp)
        /\ Has("renderEgressTo") =>
              out["renderEgressTo"] =
                  << L0("    - to:\n"), L0("        - podSelector:\n"),
                     L0("            matchLabels:\n"),
                     Line("              app: %s\n", <<DNSService(inp)>>),
                     L0("          namespaceSelector:\n"), L0("            matchLabels:\n"),
                     Line("              kubernetes.io/metadata.name: %s\n",
                          <<DNSNamespace(inp)>>) >>

----------------------------------------------------------------------------
(* The Kubernetes extractor.  A stream is the sequence of its documents as *)
(* yaml.Decoder delivers them: whether Decode succeeds, whether the        *)
(* document is empty, and the fields the extractor reads (numbers as toInt *)
(* returns them, map entries in the order the iteration visits them).     *)

\* Number of documents of a stream.
MaxDocs == 3

sUnknown == <<"u", "n", "k", "n", "o", "w", "n">>

\* metadataName
metadataName(doc) == IF doc.name = <<>> THEN sUnknown ELSE doc.name

\* parseWorkload: the containerPort entries of one container
RECURSIVE ContainerPortDeps(_, _, _)
ContainerPortDeps(ports, workloadName, path) ==
    IF ports = <<>> THEN <<>>
    ELSE (IF Head(ports) > 0
          THEN << Dep(workloadName, workloadName, Head(ports),
                      <<"c", "o", "n", "t", "a", "i", "n", "e", "r", " ", "p", "o", "r", "t",
                          " ">> \o Itoa(Head(ports)), "high", path).dep >>
          ELSE <<>>)
         \o ContainerPortDeps(Tail(ports), workloadName, path)

\* parseWorkload: one env entry, its value and its valueFrom references
EnvEntryDeps(em, workloadName, path) ==
    (IF em.value # <<>>
     THEN extractDepsFromValue(em.value, workloadName, em.name, "high", path)
     ELSE <<>>)
    \o (IF em.configMapKeyRef # <<>>
        THEN << Dep(workloadName, em.configMapKeyRef, 0,
                    <<"e", "n", "v", " ">> \o em.name \o <<" ", "r", "e", "f", "e", "r", "e", "n",
                        "c", "e", "s", " ", "C", "o", "n", "f", "i", "g", "M", "a", "p",
                            " ">> \o em.configMapKeyRef,
                    "medium", path).dep >>
        ELSE <<>>)
    \o (IF em.secretKeyRef # <<>>
        THEN << Dep(workloadName, em.secretKeyRef, 0,
                    <<"e", "n", "v", " ">> \o em.name \o <<" ", "r", "e", "f", "e", "r", "e", "n",
                        "c", "e", "s", " ", "S", "e", "c", "r", "e", "t", " ">> \o em.secretKeyRef,
                    "medium", path).dep >>
        ELSE <<>>)

RECURSIVE EnvDeps(_, _, _)
EnvDeps(envVars, workloadName, path) ==
    IF envVars = <<>> THEN <<>>
    ELSE EnvEntryDeps(Head(envVars), workloadName, path)
         \o EnvDeps(Tail(envVars), workloadName, path)

RECURSIVE ContainersDeps(_, _, _)
ContainersDeps(containers, workloadName, path) ==
    IF containers = <<>> THEN <<>>
    ELSE ContainerPortDeps(Head(containers).ports, workloadName, path)
         \o EnvDeps(Head(containers).env, workloadName, path)
         \o ContainersDeps(Tail(containers), workloadName, path)

\* parseWorkload
parseWorkload(doc, path) == ContainersDeps(doc.containers, metadataName(doc), path)

RECURSIVE ServicePortDeps(_, _, _)
ServicePortDeps(ports, svcName, path) ==
    IF ports = <<>> THEN <<>>
    ELSE LET port == Head(ports).port
             targetPort == Head(ports).targetPort
             desc == IF targetPort > 0 /\ targetPort # port
                     THEN <<"s", "e", "r", "v", "i", "c", "e", " ", "p", "o", "r", "t",
                         " ">> \o Itoa(port) \o <<" ", "-", ">", " ", "t", "a", "r", "g", "e",
                             "t", "P", "o", "r", "t", " ">>
                              \o Itoa(targetPort)
                     ELSE <<"s", "e", "r", "v", "i", "c", "e", " ", "p", "o", "r", "t",
                         " ">> \o Itoa(port) IN
         (IF port > 0 THEN << Dep(svcName, svcName, port, desc, "high", path).dep >> ELSE <<>>)
         \o ServicePortDeps(Tail(ports), svcName, path)

\* parseService
parseService(doc, path) == ServicePortDeps(doc.ports, metadataName(doc), path)

RECURSIVE ConfigMapDataDeps(_, _, _)
ConfigMapDataDeps(data, cmName, path) ==
    IF data = <<>> THEN <<>>
    ELSE extractDepsFromValue(Head(data).value, cmName, Head(data).key, "medium", path)
         \o ConfigMapDataDeps(Tail(data), cmName, path)

\* parseConfigMap
parseConfigMap(doc, path) == ConfigMapDataDeps(doc.data, metadataName(doc), path)

\* The switch on doc["kind"] of parseK8sBytes
KindDeps(doc, sourceLabel) ==
    CASE doc.kind \in {"Deployment", "StatefulSet"} -> parseWorkload(doc, sourceLabel)
      [] doc.kind = "Service" -> parseService(doc, sourceLabel)
      [] doc.kind = "ConfigMap" -> parseConfigMap(doc, sourceLabel)
      [] OTHER -> <<>>

\* The loop of parseK8sBytes: Decode until it returns an error, which is
\* the end of the stream or a document that does not decode
RECURSIVE DecodeLoop(_, _)
DecodeLoop(docs, sourceLabel) ==
    IF docs = <<>> THEN <<>>
    ELSE IF ~Head(docs).decodes THEN <<>>
    ELSE IF Head(docs).empty THEN DecodeLoop(Tail(docs), sourceLabel)
    ELSE KindDeps(Head(docs), sourceLabel) \o DecodeLoop(Tail(docs), sourceLabel)

\* A plausible bug: a document that does not decode fails the whole stream.
K8sBytesFailOnError(data, sourceLabel) ==
    IF \E i \in DOMAIN data : ~data[i].decodes
    THEN [deps |-> <<>>, err |-> "yaml"]
    ELSE [deps |-> DecodeLoop(data, sourceLabel), err |-> "nil"]

\* parseK8sBytes
parseK8sBytes(data, sourceLabel) == [deps |-> DecodeLoop(data, sourceLabel), err |-> "nil"]

\* k8sMarker: the bytes hold "apiVersion:" and "kind:"
k8sMarker(data) ==
    /\ \E i \in DOMAIN data : "apiVersion:" \in data[i].markers
    /\ \E i \in DOMAIN data : "kind:" \in data[i].markers

\* ParseK8sContent, and parseK8s on the bytes of a file that was read
ParseK8sContent(content, sourceLabel) ==
    IF ~k8sMarker(content) THEN [deps |-> <<>>, err |-> "nil"]
    ELSE parseK8sBytes(content, sourceLabel)

\* A document with the fields the extractor reads
K8sDoc(decodes, kind, name, containers, ports, data) ==
    [decodes |-> decodes, empty |-> FALSE, kind |-> kind, name |-> name,
     markers |-> {"apiVersion:", "kind:"},
     containers |-> containers, ports |-> ports, data |-> data]

NoRef == <<>>
dService ==
    K8sDoc(TRUE, "Service", <<"f", "r", "o", "n", "t", "e", "n", "d", "-", "s", "v", "c">>, <<>>,
           << [port |-> 80, targetPort |-> 3000] >>, <<>>)
dDeployment ==
    K8sDoc(TRUE, "Deployment", <<"f", "r", "o", "n", "t", "e", "n", "d">>,
           << [ports |-> <<3000>>,
               env |-> << [name |-> <<"A", "P", "I", "_", "U", "R", "L">>, value |-> <<"h", "t",
                   "t", "p", ":", "/", "/", "a", "p", "i", "-", "g", "a", "t", "e", "w", "a", "y",
                       ":", "8", "0", "8", "0">>,
                           configMapKeyRef |-> NoRef, secretKeyRef |-> NoRef],
                          [name |-> <<"D", "B", "_", "P", "A", "S", "S">>, value |-> <<>>,
                           configMapKeyRef |-> NoRef, secretKeyRef |-> <<"d", "b", "-", "s", "e",
                               "c", "r", "e", "t">>] >>] >>,
           <<>>, <<>>)
dBackendURL == [key |-> <<"b", "a", "c", "k", "e", "n", "d", "_", "u", "r",
    "l">>, value |-> <<"h", "t", "t", "p", ":", "/", "/", "b", "a", "c", "k", "e", "n", "d", "-",
        "s", "e", "r", "v", "i", "c", "e", ":", "9", "0", "9", "0", "/", "a", "p", "i">>]
dCacheAddr == [key |-> <<"c", "a", "c", "h", "e", "_", "a", "d", "d", "r">>, value |-> <<"m", "e",
    "m", "c", "a", "c", "h", "e", "d", ":", "1", "1", "2", "1", "1">>]
dConfigMap == K8sDoc(TRUE, "ConfigMap", <<"f", "r", "o", "n", "t", "e", "n", "d", "-", "c", "o",
    "n", "f", "i", "g">>, <<>>, <<>>,
                     <<dBackendURL, dCacheAddr>>)
dConfigMapOtherOrder == K8sDoc(TRUE, "ConfigMap", <<"f", "r", "o", "n", "t", "e", "n", "d", "-",
    "c", "o", "n", "f", "i", "g">>, <<>>, <<>>,
                               <<dCacheAddr, dBackendURL>>)
dIngress == K8sDoc(TRUE, "Ingress", <<>>, <<>>, <<>>, <<>>)
\* "---" followed by nothing: Decode succeeds and leaves the map nil
dEmpty == [K8sDoc(TRUE, "", <<>>, <<>>, <<>>, <<>>) EXCEPT !.empty = TRUE, !.markers = {}]
\* a document that is not well-formed YAML, or is not a mapping
dMalformed == K8sDoc(FALSE, "Service", <<"f", "r", "o", "n", "t", "e", "n", "d", "-", "s", "v",
    "c">>, <<>>,
                     << [port |-> 443, targetPort |-> 0] >>, <<>>)

K8sDocs == {dService, dDeployment, dConfigMap, dConfigMapOtherOrder, dIngress, dEmpty,
            dMalformed}

K8sStreams == SeqsUpTo(K8sDocs, MaxDocs)

sManifestPath == <<"k", "8", "s", "/", "a", "p", "p", ".", "y", "a", "m", "l">>

InitK8s == FunInit(K8sStreams)

\* parseK8sBytes(data, sourceLabel)
DoParseK8sBytes ==
    /\ ~Has("parseK8sBytes")
    /\ out' = Applied("parseK8sBytes", parseK8sBytes(inp, sManifestPath))
    /\ UNCHANGED <<inp, setVars, walkVars>>

\* ParseK8sContent(content, sourceLabel)
DoParseK8sContent ==
    /\ ~Has("ParseK8sContent")
    /\ out' = Applied("ParseK8sContent", ParseK8sContent(inp, sManifestPath))
    /\ UNCHANGED <<inp, setVars, walkVars>>

NextK8s ==
    \/ DoParseK8sBytes
    \/ DoParseK8sContent

SpecK8s == InitK8s /\ [][NextK8s]_vars

\* The position of the first document of a stream that does not decode, or
\* one past the end
FirstFailure(docs) ==
    IF \E i \in DOMAIN docs : ~docs[i].decodes
    THEN CHOOSE i \in DOMAIN docs :
             ~docs[i].decodes /\ \A j \in 1..(i - 1) : docs[j].decodes
    ELSE Len(docs) + 1

\* The facts of one document on its own
FactsOfDocument(doc) ==
    IF doc.empty THEN <<>> ELSE KindDeps(doc, sManifestPath)

RECURSIVE FactsOfDocuments(_, _)
FactsOfDocuments(docs, n) ==
    IF n = 0 THEN <<>> ELSE FactsOfDocuments(docs, n - 1) \o FactsOfDocument(docs[n])

\* C18: for a stream whose k-th document is the first that does not decode,
\* parseK8sBytes returns the facts of the documents 1..k-1, in that order,
\* and a nil error; without such a document, the facts of all documents.
C18_FactsBeforeFirstFailure ==
    Has("parseK8sBytes") =>
        /\ out["parseK8sBytes"].err = "nil"
        /\ out["parseK8sBytes"].deps = FactsOfDocuments(inp, FirstFailure(inp) - 1)

\* A Service, a malformed document and a Deployment: the Service's fact is
\* returned, the Deployment's facts are not.
C18_Witness ==
    /\ inp = <<dService, dMalformed, dDeployment>>
    /\ Has("parseK8sBytes")
    /\ Len(out["parseK8sBytes"].deps) = 1
    /\ out["parseK8sBytes"].deps[1].Source = <<"f", "r", "o", "n", "t", "e", "n", "d", "-", "s",
        "v", "c">>
    /\ out["parseK8sBytes"].deps[1].Port = 80

----------------------------------------------------------------------------
(* Walk over files of known content: what each registered parser returns   *)
(* for a file that was read.                                               *)

\* The parser registered with each pattern of RegistryPatterns
RegistryParsers ==
    << "parsePomXML", "parseBuildGradle", "parseBuildGradle",
       "parseCompose", "parseCompose", "parseCompose", "parseCompose",
       "parseEnvFile", "parseK8s", "parseK8s",
       "parseSpringYAML", "parseSpringYAML", "parseSpringProperties" >>

\* The content of a YAML file is its stream of documents; it is well-formed
\* when every document decodes.  An XML file is well-formed or not.
YamlContent(docs) == [docs |-> docs, wellFormed |-> \A i \in DOMAIN docs : docs[i].decodes]
XmlContent(ok) == [docs |-> <<>>, wellFormed |-> ok]
NoContent == XmlContent(TRUE)

\* What a parser can return for a file it has read.  parseK8s gives what
\* parseK8sBytes gives when the markers are there; parseSpringYAML leaves
\* both of its decode loops at the first error and returns nil;
\* parseCompose returns the error of yaml.Unmarshal, which decodes the
\* first document; parsePomXML returns the error of xml.Unmarshal.  The
\* facts of the parsers other than parseK8s are any of WalkDepLists.
ParserOutcomes(fn, content, path) ==
    CASE fn = "parseK8s" -> {ParseK8sContent(content.docs, path)}
      [] fn = "parseSpringYAML" -> {[err |-> "nil", deps |-> q] : q \in WalkDepLists}
      [] fn = "parseCompose" ->
            IF content.docs # <<>> /\ ~Head(content.docs).decodes
            THEN {[err |-> "parsing compose", deps |-> <<>>]}
            ELSE {[err |-> "nil", deps |-> q] : q \in WalkDepLists}
      [] fn = "parsePomXML" ->
            IF ~content.wellFormed
            THEN {[err |-> "parsing pom.xml", deps |-> <<>>]}
            ELSE {[err |-> "nil", deps |-> q] : q \in WalkDepLists}
      [] OTHER -> {[err |-> "nil", deps |-> q] : q \in WalkDepLists}

\* Documents that are no manifests: a Spring configuration, a Compose file
dPlain == [K8sDoc(TRUE, "", <<>>, <<>>, <<>>, <<>>) EXCEPT !.markers = {}]
dPlainMalformed == [dPlain EXCEPT !.decodes = FALSE]

\* The scanned tree in the order WalkDir visits it, and the contents each
\* file can have
ScanEntries ==
    << [rel |-> <<"a", "p", "p", "l", "i", "c", "a", "t", "i", "o", "n", ".", "y", "m",
        "l">>, dir |-> FALSE,
        contents |-> {YamlContent(<<dPlain>>), YamlContent(<<dPlainMalformed>>)}],
       [rel |-> <<"d", "o", "c", "k", "e", "r", "-", "c", "o", "m", "p", "o", "s", "e", ".", "y",
           "m", "l">>, dir |-> FALSE,
        contents |-> {YamlContent(<<dPlain>>), YamlContent(<<dPlainMalformed>>)}],
       [rel |-> <<"k", "8", "s">>, dir |-> TRUE, contents |-> {NoContent}],
       [rel |-> <<"k", "8", "s", "/", "d", "e", "p", "l", "o", "y", ".", "y", "a", "m",
           "l">>, dir |-> FALSE,
        contents |-> {YamlContent(<<dService>>), YamlContent(<<dMalformed>>),
                      YamlContent(<<dService, dMalformed>>)}],
       [rel |-> <<"p", "o", "m", ".", "x", "m", "l">>, dir |-> FALSE,
        contents |-> {XmlContent(TRUE), XmlContent(FALSE)}] >>

ScanRoots == { <<"/", "s", "r", "v", "/", "a", "p", "p">>, <<"a", "p", "p", "/">> }

\* Walk(root, registry) up to WalkDir's call of the callback on the root
ScanStart ==
    /\ wpc = "idle"
    /\ \E r \in ScanRoots :
          LET st == WalkFn([ds |-> NewDependencySet(Base(r)), warnings |-> <<>>,
                            result |-> "nil"],
                           r, CleanRoot(r), TRUE, "nil", <<>>) IN
          /\ root' = r
          /\ ds' = st.ds
          /\ warnings' = st.warnings
          /\ werr' = "nil"
          /\ visited' = << [idx |-> 0, path |-> CleanRoot(r), dir |-> TRUE, err |-> "nil",
                            result |-> st.result, content |-> NoContent] >>
    /\ wpc' = "walking"
    /\ UNCHANGED <<log, prev, ret, charts, failed>>
    /\ UNCHANGED funVars

\* One call of the callback by WalkDir on the next entry, a readable file
\* or a directory: every matching parser is called on the file's content.
ScanEntry ==
    /\ wpc = "walking"
    /\ Len(visited) <= Len(ScanEntries)
    /\ LET i == Len(visited)
           e == ScanEntries[i]
           path == JoinPath(root, e.rel)
           fns == IF e.dir THEN <<>> ELSE Match(path) IN
       \E content \in e.contents :
       \E results \in [DOMAIN fns -> ParserResults \cup {ParseK8sContent(content.docs, path)}] :
          /\ \A k \in DOMAIN fns :
                results[k] \in ParserOutcomes(RegistryParsers[fns[k]], content, path)
          /\ LET st == WalkFn([ds |-> ds, warnings |-> warnings, result |-> "nil"],
                              root, path, e.dir, "nil", results) IN
             /\ ds' = st.ds
             /\ warnings' = st.warnings
             /\ werr' = IF st.result \in {"nil", "SkipDir"} THEN "nil" ELSE st.result
             /\ visited' = Append(visited, [idx |-> i, path |-> path, dir |-> e.dir,
                                            err |-> "nil", result |-> st.result,
                                            content |-> content])
             /\ log' = log \o EmittedBy(results)
             /\ failed' = failed \o FailuresOf(e.rel, results)
    /\ UNCHANGED <<prev, ret, wpc, root, charts>>
    /\ UNCHANGED funVars

\* WalkDir returned after the last entry; charts := detectHelmCharts(root)
ScanDirDone ==
    /\ wpc = "walking"
    /\ Len(visited) = Len(ScanEntries) + 1
    /\ charts' = detectHelmCharts(root, visited)
    /\ wpc' = "helm"
    /\ UNCHANGED <<ds, log, prev, ret, root, warnings, werr, failed, visited>>
    /\ UNCHANGED funVars

NextScan ==
    \/ ScanStart
    \/ ScanEntry
    \/ ScanDirDone
    \/ WalkReturn

SpecScan == InitWalk /\ [][NextScan]_vars

\* C19: when Walk has returned, every entry of the tree was visited, and
\* for every file whose content is malformed the warnings hold one with the
\* file's path relative to the root.
C19_MalformedFilesWarned ==
    wpc = "done" =>
        /\ Len(visited) = Len(ScanEntries) + 1
        /\ \A k \in 2..Len(visited) :
              (~visited[k].dir /\ ~visited[k].content.wellFormed) =>
                  \E w \in DOMAIN ret.val.warnings :
                      ret.val.warnings[w].File = ScanEntries[visited[k].idx].rel

----------------------------------------------------------------------------
(* The Compose extractor.  A file is its decoded services in the order the *)
(* iteration over the map visits them.                                     *)

\* wellKnownImages
wellKnownImages ==
    (<<"p", "o", "s", "t", "g", "r", "e", "s">> :> [port |-> 5432, desc |-> <<"P", "o", "s", "t",
        "g", "r", "e", "S", "Q", "L">>])
    @@ (<<"m", "y", "s", "q", "l">> :> [port |-> 3306, desc |-> <<"M", "y", "S", "Q", "L">>])
    @@ (<<"m", "a", "r", "i", "a", "d", "b">> :> [port |-> 3306, desc |-> <<"M", "a", "r", "i",
        "a", "D", "B">>])
    @@ (<<"r", "e", "d", "i", "s">> :> [port |-> 6379, desc |-> <<"R", "e", "d", "i", "s">>])
    @@ (<<"m", "o", "n", "g", "o">> :> [port |-> 27017, desc |-> <<"M", "o", "n", "g", "o", "D",
        "B">>])
    @@ (<<"r", "a", "b", "b", "i", "t", "m", "q">> :> [port |-> 5672, desc |-> <<"R", "a", "b",
        "b", "i", "t", "M", "Q">>])
    @@ (<<"e", "l", "a", "s", "t", "i", "c", "s", "e", "a", "r", "c",
        "h">> :> [port |-> 9200, desc |-> <<"E", "l", "a", "s", "t", "i", "c", "s", "e", "a", "r",
            "c", "h">>])
    @@ (<<"k", "a", "f", "k", "a">> :> [port |-> 9092, desc |-> <<"K", "a", "f", "k", "a">>])
    @@ (<<"n", "a", "t", "s">> :> [port |-> 4222, desc |-> <<"N", "A", "T", "S">>])
    @@ (<<"m", "e", "m", "c", "a", "c", "h", "e", "d">> :> [port |-> 11211, desc |-> <<"M", "e",
        "m", "c", "a", "c", "h", "e", "d">>])
    @@ (<<"c", "o", "n", "s", "u", "l">> :> [port |-> 8500, desc |-> <<"C", "o", "n", "s", "u",
        "l">>])
    @@ (<<"e", "t", "c", "d">> :> [port |-> 2379, desc |-> <<"e", "t", "c", "d">>])
    @@ (<<"z", "o", "o", "k", "e", "e", "p", "e", "r">> :> [port |-> 2181, desc |-> <<"Z", "o",
        "o", "K", "e", "e", "p", "e", "r">>])
    @@ (<<"m", "i", "n", "i", "o">> :> [port |-> 9000, desc |-> <<"M", "i", "n", "I", "O">>])
    @@ (<<"v", "a", "u", "l", "t">> :> [port |-> 8200, desc |-> <<"V", "a", "u", "l", "t">>])

NoImageInfo == [port |-> 0, desc |-> <<>>]

\* inferFromImage, the name: after the last "/", before the first ":",
\* in lower case
ImageName(image) ==
    ToLower(Before(Slice(image, LastIndex(image, "/") + 1, Len(image)), ":"))

\* inferFromImage, the lookup: the exact name, then a key that is a prefix
\* of the name (no key is a prefix of another, so at most one is)
InferByName(name) ==
    IF name \in DOMAIN wellKnownImages THEN wellKnownImages[name]
    ELSE IF \E prefix \in DOMAIN wellKnownImages : HasPrefix(name, prefix)
    THEN wellKnownImages[CHOOSE prefix \in DOMAIN wellKnownImages : HasPrefix(name, prefix)]
    ELSE NoImageInfo

\* inferFromImage
inferFromImage(image) == IF image = <<>> THEN NoImageInfo ELSE InferByName(ImageName(image))

\* strings.TrimSpace for the blank
RECURSIVE TrimSpaceLeft(_)
TrimSpaceLeft(s) == IF s # <<>> /\ Head(s) = " " THEN TrimSpaceLeft(Tail(s)) ELSE s
RECURSIVE TrimSpaceRight(_)
TrimSpaceRight(s) == IF s # <<>> /\ Last(s) = " " THEN TrimSpaceRight(Front(s)) ELSE s
TrimSpace(s) == TrimSpaceRight(TrimSpaceLeft(s))

\* port, err := strconv.Atoi(portStr); if err != nil { return 0 }
AtoiOrZero(s) ==
    IF s # <<>> /\ \A i \in DOMAIN s : IsDigitChar(s[i]) THEN DecValue(s)
    ELSE IF Len(s) >= 2 /\ Head(s) = "+" /\ \A i \in 2..Len(s) : IsDigitChar(s[i])
    THEN DecValue(Tail(s))
    ELSE 0

\* parseContainerPort: without the "/proto" suffix, the part after the last
\* ":", up to a "-"
parseContainerPort(s) ==
    AtoiOrZero(Before(Slice(Before(TrimSpace(s), "/"),
                            LastIndex(Before(TrimSpace(s), "/"), ":") + 1,
                            Len(Before(TrimSpace(s), "/"))), "-"))

\* parseDependsOn: the strings of a list, the keys of a map
parseDependsOn(v) == IF v.form \in {"list", "map"} THEN v.names ELSE <<>>

\* parseEnvironment: the values of the map form, the text after the first
\* "=" of the entries of the list form
RECURSIVE parseEnvironment(_)
parseEnvironment(v) ==
    IF v.items = <<>> THEN <<>>
    ELSE IF v.form = "map"
    THEN <<Head(v.items)>> \o parseEnvironment([v EXCEPT !.items = Tail(@)])
    ELSE IF v.form = "list"
    THEN (IF IndexFrom(Head(v.items), "=", 1) # 0
          THEN <<Slice(Head(v.items), IndexFrom(Head(v.items), "=", 1) + 1,
                       Len(Head(v.items)))>>
          ELSE <<>>)
         \o parseEnvironment([v EXCEPT !.items = Tail(@)])
    ELSE <<>>

RECURSIVE ComposePortDeps(_, _, _)
ComposePortDeps(ports, serviceName, path) ==
    IF ports = <<>> THEN <<>>
    ELSE (IF parseContainerPort(Head(ports)) > 0
          THEN << Dep(serviceName, serviceName, parseContainerPort(Head(ports)),
                      <<"e", "x", "p", "o", "s", "e", "d", " ", "p", "o", "r",
                          "t">>, "high", path).dep >>
          ELSE <<>>)
         \o ComposePortDeps(Tail(ports), serviceName, path)

\* cf.Services[depName]
HasService(cf, name) == \E i \in DOMAIN cf : cf[i].name = name
ServiceNamed(cf, name) == cf[CHOOSE i \in DOMAIN cf : cf[i].name = name]

\* A plausible bug: depends_on never looks at the image of the service it
\* names.
DependsOnNoUpgrade(cf, serviceName, depName, path) ==
    Dep(serviceName, depName, 0, <<"d", "e", "p", "e", "n", "d", "s", "_", "o",
        "n">>, "medium", path).dep

\* The fact of one name of depends_on
DependsOnDep(cf, serviceName, depName, path) ==
    IF HasService(cf, depName) /\ inferFromImage(ServiceNamed(cf, depName).image).port > 0
    THEN Dep(serviceName, depName, inferFromImage(ServiceNamed(cf, depName).image).port,
             inferFromImage(ServiceNamed(cf, depName).image).desc, "high", path).dep
    ELSE Dep(serviceName, depName, 0, <<"d", "e", "p", "e", "n", "d", "s", "_", "o",
        "n">>, "medium", path).dep

RECURSIVE DependsOnDeps(_, _, _, _)
DependsOnDeps(cf, serviceName, depNames, path) ==
    IF depNames = <<>> THEN <<>>
    ELSE << DependsOnDep(cf, serviceName, Head(depNames), path) >>
         \o DependsOnDeps(cf, serviceName, Tail(depNames), path)

\* The fact of the service's own image
ImageDeps(svc, path) ==
    IF inferFromImage(svc.image).port > 0
    THEN << Dep(svc.name, svc.name, inferFromImage(svc.image).port,
                inferFromImage(svc.image).desc \o <<" ", "(", "i", "n", "f", "e", "r", "r", "e",
                    "d", " ", "f", "r", "o", "m", " ", "i", "m", "a", "g", "e", ")">>,
                "low", path).dep >>
    ELSE <<>>

\* The fact of one environment value: the source is the service and high
\* confidence becomes medium
EnvValueDeps(val, serviceName, path) ==
    IF extractFromValue(val, path).ok
    THEN << [extractFromValue(val, path).dep EXCEPT
                !.Source = serviceName,
                !.Confidence = IF @ = "high" THEN "medium" ELSE @] >>
    ELSE <<>>

RECURSIVE ComposeEnvDeps(_, _, _)
ComposeEnvDeps(vals, serviceName, path) ==
    IF vals = <<>> THEN <<>>
    ELSE EnvValueDeps(Head(vals), serviceName, path)
         \o ComposeEnvDeps(Tail(vals), serviceName, path)

\* The body of parseCompose's loop for one service
ComposeServiceDeps(cf, svc, path) ==
    ComposePortDeps(svc.ports, svc.name, path)
    \o DependsOnDeps(cf, svc.name, parseDependsOn(svc.dependsOn), path)
    \o ImageDeps(svc, path)
    \o ComposeEnvDeps(parseEnvironment(svc.environment), svc.name, path)

RECURSIVE ComposeLoop(_, _, _)
ComposeLoop(cf, k, path) ==
    IF k > Len(cf) THEN <<>>
    ELSE ComposeServiceDeps(cf, cf[k], path) \o ComposeLoop(cf, k + 1, path)

\* parseCompose on the decoded file
parseCompose(cf, path) == [deps |-> ComposeLoop(cf, 1, path), err |-> "nil"]

\* A service of a Compose file
ComposeService(name, image, ports, dependsOn, environment) ==
    [name |-> name, image |-> image, ports |-> ports, dependsOn |-> dependsOn,
     environment |-> environment]

NoDependsOn == [form |-> "none", names |-> <<>>]
NoEnvironment == [form |-> "none", items |-> <<>>]

sComposeApp == <<"a", "p", "p">>
sComposeDb == <<"d", "b">>
sComposeCache == <<"c", "a", "c", "h", "e">>

\* The services app can be: with or without the port mapping, depends_on
\* as a list or as a map, naming db, db and cache, or a service the file
\* does not define, with or without a connection string in environment
AppServices ==
    { ComposeService(sComposeApp, <<"m", "y", "a", "p", "p", ":", "l", "a", "t", "e", "s",
        "t">>, ports,
                     [form |-> form, names |-> names], env) :
        ports \in {<<>>, <<<<"3", "0", "0", "0", ":", "3", "0", "0", "0">>>>, <<<<"1", "2", "7",
            ".", "0", ".", "0", ".", "1", ":", "8", "0", "8", "0", ":", "8", "0", "/", "t", "c",
                "p">>>>},
        form \in {"list", "map"},
        names \in {<<sComposeDb>>, <<sComposeDb, sComposeCache>>, <<<<"g", "h", "o", "s", "t">>>>},
        env \in {NoEnvironment,
                 [form |-> "list",
                  items |-> <<<<"D", "B", "_", "U", "R", "L", "=", "j", "d", "b", "c", ":", "p",
                      "o", "s", "t", "g", "r", "e", "s", "q", "l", ":", "/", "/", "d", "b", ":",
                          "5", "4", "3", "2", "/", "s", "h", "o", "p">>>>]} }

\* The services db can be: a well-known image, with registry and path, a
\* name that only starts like one, another image, none
DbServices ==
    { ComposeService(sComposeDb, image, <<>>, NoDependsOn, NoEnvironment) :
        image \in {<<"p", "o", "s", "t", "g", "r", "e", "s", ":", "1", "5">>, <<"d", "o", "c",
            "k", "e", "r", ".", "i", "o", "/", "l", "i", "b", "r", "a", "r", "y", "/", "p", "o",
                "s", "t", "g", "r", "e", "s", ":", "1", "5">>,
                   <<"b", "i", "t", "n", "a", "m", "i", "/", "r", "e", "d", "i", "s", "-", "c",
                       "l", "u", "s", "t", "e", "r", ":", "7">>, <<"m", "y", "o", "r", "g", "/",
                           "c", "u", "s", "t", "o", "m", "d", "b", ":", "1">>, <<>>} }

cacheService == ComposeService(sComposeCache, <<"r", "e", "d", "i", "s", ":",
    "7">>, <<>>, NoDependsOn, NoEnvironment)

\* The files: app and db in both orders of the iteration, and with cache
ComposeFiles ==
    UNION { { <<a, d>>, <<d, a>>, <<d, cacheService, a>> } : a \in AppServices, d \in DbServices }

sComposePath == <<"d", "o", "c", "k", "e", "r", "-", "c", "o", "m", "p", "o", "s", "e", ".", "y",
    "m", "l">>
sShop == <<"s", "h", "o", "p">>

InitCompose == FunInit(ComposeFiles)

\* parseCompose(path) for a file that was read and decoded
DoParseCompose ==
    /\ ~Has("parseCompose")
    /\ out' = Applied("parseCompose", parseCompose(inp, sComposePath))
    /\ UNCHANGED <<inp, setVars, walkVars>>

\* Walk's callback on the file: the facts go into the set of the scan
DoWalkCompose ==
    /\ Has("parseCompose")
    /\ ~Has("Walk")
    /\ out' = Applied("Walk", AddDeps(NewDependencySet(sShop), out["parseCompose"].deps))
    /\ UNCHANGED <<inp, setVars, walkVars>>

\* renderer.PerServiceNetworkPolicy(ds) on the set of the scan
DoRenderCompose ==
    /\ Has("Walk")
    /\ ~Has("PerServiceNetworkPolicy")
    /\ out' = Applied("PerServiceNetworkPolicy", PerServiceNetworkPolicy(out["Walk"]))
    /\ UNCHANGED <<inp, setVars, walkVars>>

NextCompose ==
    \/ DoParseCompose
    \/ DoWalkCompose
    \/ DoRenderCompose

SpecCompose == InitCompose /\ [][NextCompose]_vars

\* The well-known table as the rule states it: the image without registry,
\* path and tag, and the entry whose name it is or begins with
RuleImageTable ==
    { <<<<"p", "o", "s", "t", "g", "r", "e", "s">>, 5432, <<"P", "o", "s", "t", "g", "r", "e",
        "S", "Q", "L">>>>, <<<<"m", "y", "s", "q", "l">>, 3306, <<"M", "y", "S", "Q", "L">>>>,
      <<<<"m", "a", "r", "i", "a", "d", "b">>, 3306, <<"M", "a", "r", "i", "a", "D",
          "B">>>>, <<<<"r", "e", "d", "i", "s">>, 6379, <<"R", "e", "d", "i", "s">>>>,
      <<<<"m", "o", "n", "g", "o">>, 27017, <<"M", "o", "n", "g", "o", "D", "B">>>>, <<<<"r", "a",
          "b", "b", "i", "t", "m", "q">>, 5672, <<"R", "a", "b", "b", "i", "t", "M", "Q">>>>,
      <<<<"e", "l", "a", "s", "t", "i", "c", "s", "e", "a", "r", "c", "h">>, 9200, <<"E", "l",
          "a", "s", "t", "i", "c", "s", "e", "a", "r", "c", "h">>>>, <<<<"k", "a", "f", "k",
              "a">>, 9092, <<"K", "a", "f", "k", "a">>>>,
      <<<<"n", "a", "t", "s">>, 4222, <<"N", "A", "T", "S">>>>, <<<<"m", "e", "m", "c", "a", "c",
          "h", "e", "d">>, 11211, <<"M", "e", "m", "c", "a", "c", "h", "e", "d">>>>,
      <<<<"c", "o", "n", "s", "u", "l">>, 8500, <<"C", "o", "n", "s", "u", "l">>>>, <<<<"e", "t",
          "c", "d">>, 2379, <<"e", "t", "c", "d">>>>,
      <<<<"z", "o", "o", "k", "e", "e", "p", "e", "r">>, 2181, <<"Z", "o", "o", "K", "e", "e",
          "p", "e", "r">>>>, <<<<"m", "i", "n", "i", "o">>, 9000, <<"M", "i", "n", "I", "O">>>>,
      <<<<"v", "a", "u", "l", "t">>, 8200, <<"V", "a", "u", "l", "t">>>> }
RuleImageName(image) ==
    LET parts == SplitChar(image, "/") IN SplitChar(parts[Len(parts)], ":")[1]
RuleMatches(image) ==
    {t \in RuleImageTable : image # <<>> /\ HasPrefix(RuleImageName(image), t[1])}

\* The facts of a list with the given source and target
FactsFromTo(deps, src, tgt) ==
    {deps[i] : i \in {j \in DOMAIN deps : deps[j].Source = src /\ deps[j].Target = tgt}}

\* What depends_on of service S on the name D must have given
DependsOnAsStated(cf, deps, S, D) ==
    LET matches == IF HasService(cf, D) THEN RuleMatches(ServiceNamed(cf, D).image) ELSE {} IN
    IF matches # {}
    THEN /\ \E f \in FactsFromTo(deps, S, D), t \in matches :
               f.Port = t[2] /\ f.Description = t[3] /\ f.Confidence = "high"
         /\ \A f \in FactsFromTo(deps, S, D) : f.Description # <<"d", "e", "p", "e", "n", "d",
             "s", "_", "o", "n">>
    ELSE /\ \E f \in FactsFromTo(deps, S, D) :
               f.Port = 0 /\ f.Confidence = "medium" /\ f.Description = <<"d", "e", "p", "e", "n",
                   "d", "s", "_", "o", "n">>
         /\ \A f \in FactsFromTo(deps, S, D) : f.Confidence # "high"

\* The scenario: app with the port mapping 3000:3000 depends on db, whose
\* image is postgres:15
IsScenario(cf) ==
    /\ Len(cf) = 2
    /\ ServiceNamed(cf, sComposeApp).ports = <<<<"3", "0", "0", "0", ":", "3", "0", "0", "0">>>>
    /\ ServiceNamed(cf, sComposeApp).dependsOn.names = <<sComposeDb>>
    /\ ServiceNamed(cf, sComposeApp).environment = NoEnvironment
    /\ ServiceNamed(cf, sComposeDb).image = <<"p", "o", "s", "t", "g", "r", "e", "s", ":", "1",
        "5">>

\* C20: every name D under depends_on of a service S, list or map, gives a
\* fact from S to D: with the port and description of D's image at high
\* confidence when the file defines D with a well-known image, else with
\* port 0 at medium confidence.  In the scenario the scan holds
\* (app, app, 3000, TCP, high) and (app, db, 5432, TCP, high, PostgreSQL), and
\* the per-service text holds the policy app-netpol with an egress rule to
\* the pod label db on port 5432 and the DNS rule.
C20_DependsOnAndScenario ==
    /\ Has("parseCompose") =>
          /\ out["parseCompose"].err = "nil"
          /\ \A k \in DOMAIN inp : \A n \in DOMAIN inp[k].dependsOn.names :
                DependsOnAsStated(inp, out["parseCompose"].deps, inp[k].name,
                                  inp[k].dependsOn.names[n])
    /\ (Has("Walk") /\ IsScenario(inp)) =>
          /\ \E i \in DOMAIN out["Walk"].deps :
                /\ Tuple(out["Walk"].deps[i]) = <<sComposeApp, sComposeApp, 3000, sTCP>>
                /\ out["Walk"].deps[i].Confidence = "high"
          /\ \E i \in DOMAIN out["Walk"].deps :
                /\ Tuple(out["Walk"].deps[i]) = <<sComposeApp, sComposeDb, 5432, sTCP>>
                /\ out["Walk"].deps[i].Confidence = "high"
                /\ out["Walk"].deps[i].Description = <<"P", "o", "s", "t", "g", "r", "e", "S",
                    "Q", "L">>
    /\ (Has("PerServiceNetworkPolicy") /\ IsScenario(inp)) =>
          \E k \in DOMAIN DocsOf(out["PerServiceNetworkPolicy"]) :
             LET doc == DocsOf(out["PerServiceNetworkPolicy"])[k] IN
             /\ ArgOfLine(doc, "  name: %s-netpol\n") = sComposeApp
             /\ \E r \in Range(ToRules(doc)) : r = EgressRuleFor(sComposeDb, 5432, sTCP)
             /\ \E r \in Range(ToRules(doc)) : r = DNSRule

\* The scenario with depends_on as a map was parsed, added and rendered:
\* the fact from app to db has port 5432, and the text holds two policies.
C20_Witness ==
    /\ IsScenario(inp)
    /\ inp[1].name = sComposeDb
    /\ ServiceNamed(inp, sComposeApp).dependsOn.form = "map"
    /\ Has("PerServiceNetworkPolicy")
    /\ \E i \in DOMAIN out["parseCompose"].deps :
          /\ Tuple(out["parseCompose"].deps[i]) = <<sComposeApp, sComposeDb, 5432, sTCP>>
          /\ out["parseCompose"].deps[i].Description = <<"P", "o", "s", "t", "g", "r", "e", "S",
              "Q", "L">>
    /\ Len(DocsOf(out["PerServiceNetworkPolicy"])) = 2

----------------------------------------------------------------------------
(* The Spring extractors, on a decoded application.yml and on the lines of *)
(* an application.properties.                                              *)

\* mergeUnique: the facts of extra whose Target:Port is not yet there
RECURSIVE mergeUnique(_, _)
mergeUnique(base, extra) ==
    IF extra = <<>> THEN base
    ELSE IF \E i \in DOMAIN base :
               base[i].Target = Head(extra).Target /\ base[i].Port = Head(extra).Port
    THEN mergeUnique(base, Tail(extra))
    ELSE mergeUnique(Append(base, Head(extra)), Tail(extra))

\* parseKafkaBrokers: the first host:port of each part between commas
BrokerOf(matches) ==
    IF matches.ok THEN << [host |-> matches.host, port |-> Atoi(matches.port)] >> ELSE <<>>
RECURSIVE KafkaParts(_)
KafkaParts(parts) ==
    IF parts = <<>> THEN <<>>
    ELSE BrokerOf(hostPortPattern(TrimSpace(Head(parts)))) \o KafkaParts(Tail(parts))
parseKafkaBrokers(s) == KafkaParts(SplitChar(s, ","))

RECURSIVE KafkaDeps(_, _)
KafkaDeps(brokers, path) ==
    IF brokers = <<>> THEN <<>>
    ELSE << Dep(<<>>, Head(brokers).host, Head(brokers).port, <<"K", "a", "f", "k",
        "a">>, "high", path).dep >>
         \o KafkaDeps(Tail(brokers), path)

\* if dep, ok := ...; ok { deps = append(deps, dep) }
OkDeps(r) == IF r.ok THEN <<r.dep>> ELSE <<>>

\* A fact of a host with a port or, for port 0, the default port
HostDep(host, port, default, desc, path) ==
    Dep(<<>>, host, IF port = 0 THEN default ELSE port, desc, "high", path).dep

sSelf == <<"s", "e", "l", "f">>
sServerPort == <<"s", "e", "r", "v", "e", "r", " ", "l", "i", "s", "t", "e", "n", "i", "n", "g",
    " ", "p", "o", "r", "t">>

\* extractSpringDeps
extractSpringDeps(cfg, path) ==
    (IF cfg.url # <<>> THEN OkDeps(parseJDBC(cfg.url, path)) ELSE <<>>)
    \o (IF cfg.redisHost # <<>>
        THEN <<HostDep(cfg.redisHost, cfg.redisPort, 6379, <<"R", "e", "d", "i",
            "s">>, path)>> ELSE <<>>)
    \o (IF cfg.dataRedisHost # <<>>
        THEN <<HostDep(cfg.dataRedisHost, cfg.dataRedisPort, 6379, <<"R", "e", "d", "i",
            "s">>, path)>>
        ELSE <<>>)
    \o (IF cfg.kafka # <<>> THEN KafkaDeps(parseKafkaBrokers(cfg.kafka), path) ELSE <<>>)
    \o (IF cfg.rabbitHost # <<>>
        THEN <<HostDep(cfg.rabbitHost, cfg.rabbitPort, 5672, <<"R", "a", "b", "b", "i", "t", "M",
            "Q">>, path)>> ELSE <<>>)
    \o (IF cfg.serverPort # 0
        THEN <<Dep(<<>>, sSelf, cfg.serverPort, sServerPort, "high", path).dep>> ELSE <<>>)

\* extractURLsFromMap on the string values of a document, in the order
\* walkYAML reaches them
RECURSIVE extractURLsFromMap(_, _)
extractURLsFromMap(vals, sourceFile) ==
    IF vals = <<>> THEN <<>>
    ELSE OkDeps(extractFromValue(Head(vals), sourceFile))
         \o extractURLsFromMap(Tail(vals), sourceFile)

\* The first loop of parseSpringYAML: every document that decodes, up to
\* the first that does not
RECURSIVE SpringConfigLoop(_, _, _)
SpringConfigLoop(allDeps, docs, path) ==
    IF docs = <<>> \/ ~Head(docs).decodes THEN allDeps
    ELSE SpringConfigLoop(mergeUnique(allDeps, extractSpringDeps(Head(docs).cfg, path)),
                          Tail(docs), path)

\* The second loop of parseSpringYAML, on the raw documents
RECURSIVE SpringRawLoop(_, _, _)
SpringRawLoop(allDeps, docs, path) ==
    IF docs = <<>> \/ ~Head(docs).decodes THEN allDeps
    ELSE SpringRawLoop(mergeUnique(allDeps, extractURLsFromMap(Head(docs).strings, path)),
                       Tail(docs), path)

\* parseSpringYAML on the documents of a file that was read
parseSpringYAML(docs, path) ==
    [deps |-> SpringRawLoop(SpringConfigLoop(<<>>, docs, path), docs, path), err |-> "nil"]

\* strings.IndexAny(line, "=:"), 0 when there is none
IndexAnyEqColon(line) ==
    IF \E i \in DOMAIN line : line[i] \in {"=", ":"}
    THEN CHOOSE i \in DOMAIN line :
             line[i] \in {"=", ":"} /\ \A j \in 1..(i - 1) : line[j] \notin {"=", ":"}
    ELSE 0

\* props[key] = val
PropsPut(props, key, val) ==
    IF \E i \in DOMAIN props : props[i].key = key
    THEN [i \in DOMAIN props |-> IF props[i].key = key THEN [key |-> key, val |-> val]
                                 ELSE props[i]]
    ELSE Append(props, [key |-> key, val |-> val])

\* One line of the scanner loop of parseSpringProperties, already trimmed
ReadLine(props, line, idx) ==
    IF line = <<>> \/ Head(line) \in {"#", "!"} \/ idx = 0 THEN props
    ELSE PropsPut(props, TrimSpace(Slice(line, 1, idx - 1)),
                  TrimSpace(Slice(line, idx + 1, Len(line))))

\* The scanner loop of parseSpringProperties: the map of the lines
RECURSIVE ReadProperties(_, _)
ReadProperties(props, lines) ==
    IF lines = <<>> THEN props
    ELSE ReadProperties(ReadLine(props, TrimSpace(Head(lines)),
                                 IndexAnyEqColon(TrimSpace(Head(lines)))),
                        Tail(lines))

PropHas(props, key) == \E i \in DOMAIN props : props[i].key = key
PropGet(props, key) == props[CHOOSE i \in DOMAIN props : props[i].key = key].val

\* strconv.Atoi returns no error
AtoiOK(s) ==
    \/ s # <<>> /\ \A i \in DOMAIN s : IsDigitChar(s[i])
    \/ Len(s) >= 2 /\ Head(s) \in {"+", "-"} /\ \A i \in 2..Len(s) : IsDigitChar(s[i])
AtoiSigned(s) ==
    IF Head(s) = "-" THEN 0 - DecValue(Tail(s))
    ELSE IF Head(s) = "+" THEN DecValue(Tail(s)) ELSE DecValue(s)

\* The port of a host of the properties: the default unless the port key
\* is there and is a number
PortOr(val, default) == IF AtoiOK(val) THEN AtoiSigned(val) ELSE default
PropPort(props, key, default) ==
    IF PropHas(props, key) THEN PortOr(PropGet(props, key), default) ELSE default

\* isHandledSpringKey
isHandledSpringKey(key) ==
    key \in { <<"s", "p", "r", "i", "n", "g", ".", "d", "a", "t", "a", "s", "o", "u", "r", "c",
        "e", ".", "u", "r", "l">>, <<"s", "p", "r", "i", "n", "g", ".", "r", "e", "d", "i", "s",
            ".", "h", "o", "s", "t">>, <<"s", "p", "r", "i", "n", "g", ".", "r", "e", "d", "i",
                "s", ".", "p", "o", "r", "t">>,
              <<"s", "p", "r", "i", "n", "g", ".", "k", "a", "f", "k", "a", ".", "b", "o", "o",
                  "t", "s", "t", "r", "a", "p", "-", "s", "e", "r", "v", "e", "r", "s">>, <<"s",
                      "p", "r", "i", "n", "g", ".", "r", "a", "b", "b", "i", "t", "m", "q", ".",
                          "h", "o", "s", "t">>,
              <<"s", "p", "r", "i", "n", "g", ".", "r", "a", "b", "b", "i", "t", "m", "q", ".",
                  "p", "o", "r", "t">>, <<"s", "e", "r", "v", "e", "r", ".", "p", "o", "r", "t">> }

\* if port, err := strconv.Atoi(v); err == nil { ... "self" ... }
ServerPortDeps(val, path) ==
    IF AtoiOK(val)
    THEN <<Dep(<<>>, sSelf, AtoiSigned(val), sServerPort, "high", path).dep>>
    ELSE <<>>

\* The fact of a host key of the properties
PropHostDeps(props, hostKey, port, desc, path) ==
    IF PropHas(props, hostKey)
    THEN <<Dep(<<>>, PropGet(props, hostKey), port, desc, "high", path).dep>>
    ELSE <<>>

\* The facts of the known keys of parseSpringProperties
KnownPropDeps(props, path) ==
    (IF PropHas(props, <<"s", "p", "r", "i", "n", "g", ".", "d", "a", "t", "a", "s", "o", "u",
                         "r", "c", "e", ".", "u", "r", "l">>)
     THEN OkDeps(parseJDBC(PropGet(props, <<"s", "p", "r", "i", "n", "g", ".", "d", "a", "t",
                                            "a", "s", "o", "u", "r", "c", "e", ".", "u", "r",
                                            "l">>), path))
     ELSE <<>>)
    \o PropHostDeps(props, <<"s", "p", "r", "i", "n", "g", ".", "r", "e", "d", "i", "s", ".",
                             "h", "o", "s", "t">>,
                    PropPort(props, <<"s", "p", "r", "i", "n", "g", ".", "r", "e", "d", "i",
                                      "s", ".", "p", "o", "r", "t">>, 6379),
                    <<"R", "e", "d", "i", "s">>, path)
    \o (IF PropHas(props, <<"s", "p", "r", "i", "n", "g", ".", "k", "a", "f", "k", "a", ".",
                            "b", "o", "o", "t", "s", "t", "r", "a", "p", "-", "s", "e", "r",
                            "v", "e", "r", "s">>)
        THEN KafkaDeps(parseKafkaBrokers(PropGet(props, <<"s", "p", "r", "i", "n", "g", ".",
                                                          "k", "a", "f", "k", "a", ".", "b",
                                                          "o", "o", "t", "s", "t", "r", "a",
                                                          "p", "-", "s", "e", "r", "v", "e",
                                                          "r", "s">>)), path)
        ELSE <<>>)
    \o PropHostDeps(props, <<"s", "p", "r", "i", "n", "g", ".", "r", "a", "b", "b", "i", "t",
                             "m", "q", ".", "h", "o", "s", "t">>,
                    PropPort(props, <<"s", "p", "r", "i", "n", "g", ".", "r", "a", "b", "b",
                                      "i", "t", "m", "q", ".", "p", "o", "r", "t">>, 5672),
                    <<"R", "a", "b", "b", "i", "t", "M", "Q">>, path)
    \o (IF PropHas(props, <<"s", "e", "r", "v", "e", "r", ".", "p", "o", "r", "t">>)
        THEN ServerPortDeps(PropGet(props, <<"s", "e", "r", "v", "e", "r", ".", "p", "o", "r",
                                             "t">>), path)
        ELSE <<>>)

\* The last loop of parseSpringProperties: the values of the other keys,
\* in the order the iteration over the map visits them
RECURSIVE ScanOtherProps(_, _, _)
ScanOtherProps(deps, pairs, path) ==
    IF pairs = <<>> THEN deps
    ELSE IF isHandledSpringKey(Head(pairs).key) THEN ScanOtherProps(deps, Tail(pairs), path)
    ELSE ScanOtherProps(mergeUnique(deps, OkDeps(extractFromValue(Head(pairs).val, path))),
                        Tail(pairs), path)

\* parseSpringProperties on the lines of a file that was read; iteration is
\* the map in the order the last loop visits it
parseSpringProperties(lines, iteration, path) ==
    [deps |-> ScanOtherProps(KnownPropDeps(ReadProperties(<<>>, lines), path), iteration, path),
     err |-> "nil"]

\* The sequences that hold every element of a set once
RECURSIVE Orderings(_)
Orderings(S) ==
    IF S = {} THEN {<<>>}
    ELSE UNION { { <<x>> \o rest : rest \in Orderings(S \ {x}) } : x \in S }

\* The orders in which a range over the map can visit its entries
MapIterations(props) == Orderings(Range(props))

(* Settings of a Spring application, written as application.yml and as     *)
(* application.properties.                                                 *)

MaxStrings == 3

sCache == <<"c", "a", "c", "h", "e">>
sSession == <<"s", "e", "s", "s", "i", "o", "n">>
sRabbit == <<"r", "a", "b", "b", "i", "t">>
sBrokers == <<"k", "1", ":", "9", "0", "9", "2", ",", "k", "2", ":", "9", "0", "9", "3">>
sBackendURL == <<"h", "t", "t", "p", ":", "/", "/", "a", "p", "i", ":", "8", "0", "8", "0">>
sBackendAddr == <<"a", "p", "i", ":", "8", "0", "8", "0">>

\* The keys of the other settings, with their values
OtherSettings ==
    { <<>>,
      << [key |-> <<"b", "a", "c", "k", "e", "n", "d", ".", "u", "r",
          "l">>, val |-> sBackendURL] >>,
      << [key |-> <<"b", "a", "c", "k", "e", "n", "d", ".", "u", "r", "l">>, val |-> sBackendURL],
         [key |-> <<"b", "a", "c", "k", "e", "n", "d", ".", "a", "d", "d",
             "r">>, val |-> sBackendAddr] >> }

\* The string values of a setting as the raw decode of its YAML holds them
YamlStrings(a) ==
    { p \in { [key |-> <<"s", "p", "r", "i", "n", "g", ".", "d", "a", "t", "a", "s", "o", "u",
        "r", "c", "e", ".", "u", "r", "l">>, val |-> a.url],
              [key |-> <<"s", "p", "r", "i", "n", "g", ".", "r", "e", "d", "i", "s", ".", "h",
                  "o", "s", "t">>, val |-> a.redisHost],
              [key |-> <<"s", "p", "r", "i", "n", "g", ".", "d", "a", "t", "a", ".", "r", "e",
                  "d", "i", "s", ".", "h", "o", "s", "t">>, val |-> a.dataRedisHost],
              [key |-> <<"s", "p", "r", "i", "n", "g", ".", "k", "a", "f", "k", "a", ".", "b",
                  "o", "o", "t", "s", "t", "r", "a", "p", "-", "s", "e", "r", "v", "e", "r",
                      "s">>, val |-> a.kafka],
              [key |-> <<"s", "p", "r", "i", "n", "g", ".", "r", "a", "b", "b", "i", "t", "m",
                  "q", ".", "h", "o", "s", "t">>, val |-> a.rabbitHost] } : p.val # <<>> }
      \cup Range(a.extras)

sPostgresURL ==
    <<"j", "d", "b", "c", ":", "p", "o", "s", "t", "g", "r", "e", "s", "q", "l", ":", "/", "/", "d", "b",
      ":", "5", "4", "3", "2", "/", "s", "h", "o", "p">>
sMysqlURL ==
    <<"j", "d", "b", "c", ":", "m", "y", "s", "q", "l", ":", "/", "/", "d", "b", "/",
      "s", "h", "o", "p">>

SpringSettings ==
    { a \in [url : {<<>>, sPostgresURL, sMysqlURL},
             redisHost : {<<>>, sCache}, redisPort : {0, 6380},
             dataRedisHost : {<<>>, sSession}, dataRedisPort : {0, 6381},
             kafka : {<<>>, sBrokers},
             rabbitHost : {<<>>, sRabbit}, rabbitPort : {0, 5673},
             serverPort : {0, 8080}, extras : OtherSettings] :
        /\ a.redisHost = <<>> => a.redisPort = 0
        /\ a.dataRedisHost = <<>> => a.dataRedisPort = 0
        /\ a.rabbitHost = <<>> => a.rabbitPort = 0
        /\ Cardinality(YamlStrings(a)) <= MaxStrings }

\* The values of a sequence of pairs
Vals(pairs) == [i \in DOMAIN pairs |-> pairs[i].val]

\* The document of application.yml with the setting
SpringDocument(a, strings) == [decodes |-> TRUE, cfg |-> a, strings |-> Vals(strings)]

\* key=value
PropertyLine(key, val) == key \o <<"=">> \o val

\* The lines of application.properties with the setting
PropertyLines(a) ==
    (IF a.url # <<>> THEN <<PropertyLine(<<"s", "p", "r", "i", "n", "g", ".", "d", "a", "t", "a",
        "s", "o", "u", "r", "c", "e", ".", "u", "r", "l">>, a.url)>> ELSE <<>>)
    \o (IF a.redisHost # <<>>
        THEN <<PropertyLine(<<"s", "p", "r", "i", "n", "g", ".", "r", "e", "d", "i", "s", ".",
            "h", "o", "s", "t">>, a.redisHost)>> ELSE <<>>)
    \o (IF a.redisPort # 0
        THEN <<PropertyLine(<<"s", "p", "r", "i", "n", "g", ".", "r", "e", "d", "i", "s", ".",
            "p", "o", "r", "t">>, Itoa(a.redisPort))>> ELSE <<>>)
    \o (IF a.dataRedisHost # <<>>
        THEN <<PropertyLine(<<"s", "p", "r", "i", "n", "g", ".", "d", "a", "t", "a", ".", "r",
            "e", "d", "i", "s", ".", "h", "o", "s", "t">>, a.dataRedisHost)>> ELSE <<>>)
    \o (IF a.dataRedisPort # 0
        THEN <<PropertyLine(<<"s", "p", "r", "i", "n", "g", ".", "d", "a", "t", "a", ".", "r",
            "e", "d", "i", "s", ".", "p", "o", "r", "t">>, Itoa(a.dataRedisPort))>> ELSE <<>>)
    \o (IF a.kafka # <<>>
        THEN <<PropertyLine(<<"s", "p", "r", "i", "n", "g", ".", "k", "a", "f", "k", "a", ".",
            "b", "o", "o", "t", "s", "t", "r", "a", "p", "-", "s", "e", "r", "v", "e", "r",
                "s">>, a.kafka)>> ELSE <<>>)
    \o (IF a.rabbitHost # <<>>
        THEN <<PropertyLine(<<"s", "p", "r", "i", "n", "g", ".", "r", "a", "b", "b", "i", "t",
            "m", "q", ".", "h", "o", "s", "t">>, a.rabbitHost)>> ELSE <<>>)
    \o (IF a.rabbitPort # 0
        THEN <<PropertyLine(<<"s", "p", "r", "i", "n", "g", ".", "r", "a", "b", "b", "i", "t",
            "m", "q", ".", "p", "o", "r", "t">>, Itoa(a.rabbitPort))>> ELSE <<>>)
    \o (IF a.serverPort # 0
        THEN <<PropertyLine(<<"s", "e", "r", "v", "e", "r", ".", "p", "o", "r",
            "t">>, Itoa(a.serverPort))>> ELSE <<>>)
    \o [i \in DOMAIN a.extras |-> PropertyLine(a.extras[i].key, a.extras[i].val)]

\* The entries of the map of the properties that the last loop does not skip
OtherProps(lines) ==
    { p \in Range(ReadProperties(<<>>, lines)) : ~isHandledSpringKey(p.key) }

sSpringYamlPath == <<"a", "p", "p", "l", "i", "c", "a", "t", "i", "o", "n", ".", "y", "m", "l">>
sSpringPropsPath == <<"a", "p", "p", "l", "i", "c", "a", "t", "i", "o", "n", ".", "p", "r", "o",
    "p", "e", "r", "t", "i", "e", "s">>

InitSpring == FunInit(SpringSettings)

\* What parseSpringProperties can return for the lines of a file, over the
\* orders of the iteration
PropertiesRuns(lines) ==
    { parseSpringProperties(lines, iteration, sSpringPropsPath) :
          iteration \in Orderings(OtherProps(lines)) }

\* parseSpringYAML(path) for the file with the setting; walkYAML reaches
\* the values in the order of the iteration over the decoded maps
DoParseSpringYAML ==
    /\ ~Has("parseSpringYAML")
    /\ \E strings \in Orderings(YamlStrings(inp)) :
           out' = Applied("parseSpringYAML",
                          parseSpringYAML(<<SpringDocument(inp, strings)>>, sSpringYamlPath))
    /\ UNCHANGED <<inp, setVars, walkVars>>

\* parseSpringProperties(path) for the file with the setting; the last
\* loop visits the entries it does not skip in the order of the iteration
DoParseSpringProperties ==
    /\ ~Has("parseSpringProperties")
    /\ \E run \in PropertiesRuns(PropertyLines(inp)) :
           out' = Applied("parseSpringProperties", run)
    /\ UNCHANGED <<inp, setVars, walkVars>>

\* Another run on the same file: the iteration over the map may take
\* another order
DoParseSpringPropertiesAgain ==
    /\ Has("parseSpringProperties")
    /\ ~Has("parseSpringProperties again")
    /\ \E run \in PropertiesRuns(PropertyLines(inp)) :
           out' = Applied("parseSpringProperties again", run)
    /\ UNCHANGED <<inp, setVars, walkVars>>

NextSpring ==
    \/ DoParseSpringYAML
    \/ DoParseSpringProperties
    \/ DoParseSpringPropertiesAgain

SpecSpring == InitSpring /\ [][NextSpring]_vars

\* The (target, port, confidence) of the facts of a result
Shapes(deps) ==
    { [Target |-> deps[i].Target, Port |-> deps[i].Port, Confidence |-> deps[i].Confidence] :
          i \in DOMAIN deps }

\* C21: for every assignment of the known fields, parseSpringYAML and
\* parseSpringProperties yield the same set of (target, port, confidence)
\* facts, the Redis fact with port 6379 for either Redis key path included.
C21_DialectsAgree ==
    (Has("parseSpringYAML") /\ Has("parseSpringProperties") /\ inp.extras = <<>>)
        => Shapes(out["parseSpringYAML"].deps) = Shapes(out["parseSpringProperties"].deps)

----------------------------------------------------------------------------
(* internal/ai: the facts of the answers of a model, and cmd: the analyze  *)
(* command from its argument to its output.                                *)

sAIPrefix == <<"[", "A", "I", "]", " ">>
sAIAnalysis == <<"a", "i", "-", "a", "n", "a", "l", "y", "s", "i", "s">>

\* A plausible bug: the prefix is put before every description
AIDescriptionAlways(ad) ==
    sAIPrefix \o (IF ad.Description = <<>> THEN ad.ServiceType ELSE ad.Description)

\* The loop body of parseResponse on one entry of the decoded answer
AIDescription(ad) ==
    IF HasPrefix(IF ad.Description = <<>> THEN ad.ServiceType ELSE ad.Description, sAIPrefix)
    THEN (IF ad.Description = <<>> THEN ad.ServiceType ELSE ad.Description)
    ELSE sAIPrefix \o (IF ad.Description = <<>> THEN ad.ServiceType ELSE ad.Description)

AIFact(ad, serviceName) ==
    [Source |-> serviceName, Target |-> ad.Host, Port |-> ad.Port,
     Protocol |-> IF ToUpper(ad.Protocol) = <<>> THEN sTCP ELSE ToUpper(ad.Protocol),
     Description |-> AIDescription(ad), Confidence |-> "medium", SourceFile |-> sAIAnalysis]

RECURSIVE AIFacts(_, _)
AIFacts(aiDeps, serviceName) ==
    IF aiDeps = <<>> THEN <<>>
    ELSE (IF Head(aiDeps).Host = <<>> THEN <<>> ELSE <<AIFact(Head(aiDeps), serviceName)>>)
         \o AIFacts(Tail(aiDeps), serviceName)

\* parseResponse on an answer whose text, without the fences, json.Unmarshal
\* decodes into aiDeps or rejects
parseResponse(answer, serviceName) ==
    IF answer.json THEN [deps |-> AIFacts(answer.aiDeps, serviceName), err |-> "nil"]
    ELSE [deps |-> <<>>, err |-> "parsing AI JSON response"]

\* for _, dep := range deps { if !existingKeys[dep.Key()] { ... } }
RECURSIVE KeepNew(_, _)
KeepNew(acc, deps) ==
    IF deps = <<>> THEN acc
    ELSE IF Key(Head(deps)) \in acc.existingKeys THEN KeepNew(acc, Tail(deps))
    ELSE KeepNew([allDeps |-> Append(acc.allDeps, Head(deps)),
                  existingKeys |-> acc.existingKeys \cup {Key(Head(deps))}],
                 Tail(deps))

\* analyzeLocal: one call per file; a file whose call or answer fails is
\* passed over
RECURSIVE LocalLoop(_, _, _)
LocalLoop(acc, calls, serviceName) ==
    IF calls = <<>> THEN acc
    ELSE IF ~Head(calls).ok \/ parseResponse(Head(calls), serviceName).err # "nil"
    THEN LocalLoop(acc, Tail(calls), serviceName)
    ELSE LocalLoop(KeepNew(acc, parseResponse(Head(calls), serviceName).deps), Tail(calls),
                   serviceName)

analyzeLocal(calls, serviceName, existingKeys) ==
    [deps |-> LocalLoop([allDeps |-> <<>>, existingKeys |-> existingKeys], calls,
                        serviceName).allDeps,
     err |-> "nil"]

\* analyzeCloud: one call for all files
analyzeCloud(call, serviceName, existingKeys) ==
    IF ~call.ok THEN [deps |-> <<>>, err |-> "Gemini API request failed"]
    ELSE IF parseResponse(call, serviceName).err # "nil"
    THEN [deps |-> <<>>, err |-> parseResponse(call, serviceName).err]
    ELSE [deps |-> KeepNew([allDeps |-> <<>>, existingKeys |-> existingKeys],
                           parseResponse(call, serviceName).deps).allDeps,
          err |-> "nil"]

\* resolveProvider, with Ollama reachable or not and GEMINI_API_KEY set or not
resolveProvider(provider, env) ==
    CASE provider = "local" ->
             IF env.ollama THEN [name |-> "local", err |-> "nil"]
             ELSE [name |-> "", err |-> "Ollama not reachable"]
      [] provider = "cloud" ->
             IF env.geminiKey THEN [name |-> "cloud", err |-> "nil"]
             ELSE [name |-> "", err |-> "GEMINI_API_KEY not set"]
      [] provider \in {"auto", ""} ->
             IF env.ollama THEN [name |-> "local", err |-> "nil"]
             ELSE IF env.geminiKey THEN [name |-> "cloud", err |-> "nil"]
             ELSE [name |-> "", err |-> "no AI backend available"]
      [] OTHER -> [name |-> "", err |-> "unknown AI provider"]

KeysOf(deps) == { Key(deps[i]) : i \in DOMAIN deps }

\* ai.Analyze: world is what the backends and the file system answer
Analyze(analyzeRoot, existingDeps, provider, world) ==
    IF resolveProvider(provider, world.env).err # "nil"
    THEN [deps |-> <<>>, err |-> resolveProvider(provider, world.env).err]
    ELSE IF ~world.collected THEN [deps |-> <<>>, err |-> "collecting files"]
    ELSE IF world.calls = <<>> THEN [deps |-> <<>>, err |-> "nil"]
    ELSE IF resolveProvider(provider, world.env).name = "local"
    THEN analyzeLocal(world.calls, Base(analyzeRoot), KeysOf(existingDeps))
    ELSE analyzeCloud(world.cloud, Base(analyzeRoot), KeysOf(existingDeps))

\* The entries of the answers of a model
AIDep(host, port, protocol, serviceType, description) ==
    [Host |-> host, Port |-> port, Protocol |-> protocol, ServiceType |-> serviceType,
     Description |-> description]

aDb == AIDep(sDb, 5432, <<"t", "c", "p">>, <<"d", "a", "t", "a", "b", "a", "s", "e">>, <<"P", "o",
    "s", "t", "g", "r", "e", "S", "Q", "L">>)
aCache == AIDep(sCache, 6379, <<>>, <<"c", "a", "c", "h", "e">>, <<>>)
aApi == AIDep(sApi, 8080, sTCP, <<"h", "t", "t", "p">>, <<"[", "A", "I", "]", " ", "a", "p", "i">>)
aApiUdp == AIDep(sApi, 8080, <<"u", "d", "p">>, <<>>, <<>>)
aNoHost == AIDep(<<>>, 9000, sTCP, <<"q", "u", "e", "u", "e">>, <<"b", "r", "o", "k", "e", "r">>)
aApiTwice == AIDep(sApi, 8081, sTCP, <<>>, <<"[", "A", "I", "]", " ", "[", "A", "I", "]", " ",
    "a", "p", "i">>)

\* What a call of a backend gives: no answer, an answer that is not the
\* JSON list, or the list
AICall(ok, json, aiDeps) == [ok |-> ok, json |-> json, aiDeps |-> aiDeps]

AICalls ==
    { AICall(FALSE, FALSE, <<>>), AICall(TRUE, FALSE, <<>>) }
      \cup { AICall(TRUE, TRUE, l) :
                 l \in { <<aDb, aCache>>, <<aCache, aApi>>,
                         <<aNoHost, aApiUdp, aApiTwice, aApi, aApi>> } }

MaxFiles == 2

World(ollama, geminiKey, collected, calls, cloud) ==
    [env |-> [ollama |-> ollama, geminiKey |-> geminiKey], collected |-> collected,
     calls |-> calls, cloud |-> cloud]

\* The worlds of a run: no backend, no files, Ollama answering file by
\* file, Gemini answering once
AIWorlds ==
    { World(o, k, FALSE, <<>>, AICall(FALSE, FALSE, <<>>)) : o \in BOOLEAN, k \in BOOLEAN }
      \cup { World(TRUE, FALSE, TRUE, calls, AICall(FALSE, FALSE, <<>>)) :
                 calls \in SeqsUpTo(AICalls, MaxFiles) }
      \cup { World(o, TRUE, TRUE, <<c>>, c) : o \in BOOLEAN, c \in AICalls }

sShopPath == <<"a", "p", "p", "s", "/", "s", "h", "o", "p">>
sConfigPath == <<"a", "p", "p", "l", "i", "c", "a", "t", "i", "o", "n", ".", "y", "m", "l">>

\* What Walk hands back for the directory: the facts of its files
WalkFactLists ==
    { <<>>,
      << Dep(<<>>, sDb, 5432, <<"P", "o", "s", "t", "g", "r", "e", "S", "Q",
          "L">>, "high", sConfigPath).dep >>,
      << Dep(<<>>, sDb, 5432, <<"P", "o", "s", "t", "g", "r", "e", "S", "Q",
          "L">>, "high", sConfigPath).dep,
         Dep(<<>>, sCache, 6379, <<"R", "e", "d", "i", "s">>, "high", sConfigPath).dep >> }

\* The flags of segspec analyze
RunArgs ==
    [path : {sShopPath}, aiProvider : {"", "auto", "local", "cloud", "gpt"},
     interactive : BOOLEAN, outputFormat : {"summary", "netpol", "per-service", "all", "xml"}]

Put(f, name, val) == (name :> val) @@ f
Say(f, stream, line) ==
    Put(f, stream, Append(IF stream \in DOMAIN f THEN f[stream] ELSE <<>>, line))
Return(f, err) == Put(f, "runAnalyze", err)
Returned == Has("runAnalyze")

\* The elements of a sequence at the indices of a set, in their order
RECURSIVE PickFrom(_, _, _)
PickFrom(s, idx, i) ==
    IF i > Len(s) THEN <<>>
    ELSE (IF i \in idx THEN <<s[i]>> ELSE <<>>) \o PickFrom(s, idx, i + 1)

\* What tui.Run can return for a list: nil, false, or a selection, true
PickerResults(deps) ==
    { [selected |-> <<>>, ok |-> FALSE] }
      \cup { [selected |-> PickFrom(deps, idx, 1), ok |-> TRUE] : idx \in SUBSET DOMAIN deps }

InitRun ==
    /\ FunInit(RunArgs)

\* os.Stat(path) and the two checks on it
RunStat ==
    /\ ~Has("Stat")
    /\ \E st \in {"missing", "file", "dir"} :
           out' = IF st = "missing" THEN Return(Put(out, "Stat", st), "cannot access")
                  ELSE IF st = "file" THEN Return(Put(out, "Stat", st), "is not a directory")
                  ELSE Put(out, "Stat", st)
    /\ UNCHANGED <<inp, setVars, walkVars>>

\* walker.Walk(path, registry, walkOpts) and the two checks on it
RunWalk ==
    /\ Has("Stat") /\ ~Returned /\ ~Has("Walk")
    /\ \E deps \in WalkFactLists, err \in {"nil", "walk error"}, nwarn \in {0, 1} :
           /\ ds' = AddDeps(NewDependencySet(Base(inp.path)), deps)
           /\ out' = IF err # "nil"
                     THEN Return(Put(out, "Walk", err), "analysis failed")
                     ELSE IF nwarn > 0
                     THEN Say(Put(out, "Walk", err), "stderr",
                         "Warning: file(s) could not be parsed")
                     ELSE Put(out, "Walk", err)
    /\ prev' = prev
    /\ UNCHANGED <<inp, log, ret, walkVars>>

\* A plausible bug: the facts of the AI step take the place of the set
AugmentReplacing(s, r) ==
    IF r.err = "nil" THEN Merge(NewDependencySet(s.ServiceName), r.deps) ELSE s

\* if aiErr != nil { ... } else { for _, dep := range aiDeps { ds.Add(dep) } }
Augment(s, r) ==
    IF r.err = "nil" THEN Merge(s, r.deps) ELSE s

\* The entries the backends of a world answer with, and what a run keeps of
\* its world: the number of files sent and those entries
WorldAnswers(world) ==
    UNION { { c.aiDeps[k] : k \in DOMAIN c.aiDeps } :
                c \in { world.calls[i] : i \in DOMAIN world.calls } \cup { world.cloud } }
Asked(f, world) ==
    Put(Put(Put(f, "AI", "on"), "asked", Len(world.calls)), "answers", WorldAnswers(world))

\* if aiProvider != "" { ai.Analyze(path, ds.Dependencies(), aiProvider) ... }
RunAI ==
    /\ Has("Walk") /\ ~Returned /\ ~Has("AI")
    /\ prev' = ds
    /\ IF inp.aiProvider = ""
       THEN /\ out' = Put(out, "AI", "off")
            /\ ds' = ds
       ELSE \E world \in AIWorlds :
                LET r == Analyze(inp.path, Dependencies(ds), inp.aiProvider, world) IN
                /\ ds' = Augment(ds, r)
                /\ out' = IF r.err = "nil"
                          THEN Put(Asked(out, world), "Analyze", r)
                          ELSE Say(Put(Asked(out, world), "Analyze", r),
                                   "stderr", "Warning: AI analysis skipped")
    /\ UNCHANGED <<inp, log, ret, walkVars>>

\* A plausible bug: a scan without facts is reported as a failure
LenCheckFailing(f, s) ==
    IF DepLen(s) = 0 THEN Return(Put(f, "Len", 0), "no network dependencies found")
    ELSE Put(f, "Len", DepLen(s))

\* if ds.Len() == 0 { fmt.Fprintln(..., "No network dependencies found."); return nil }
LenCheck(f, s) ==
    IF DepLen(s) = 0
    THEN Return(Say(Put(f, "Len", 0), "stdout", "No network dependencies found."), "nil")
    ELSE Put(f, "Len", DepLen(s))

RunLen ==
    /\ Has("AI") /\ ~Returned /\ ~Has("Len")
    /\ out' = LenCheck(out, ds)
    /\ UNCHANGED <<inp, setVars, walkVars>>

\* if interactive { ... tui.Run(ds.Dependencies()) ... }
RunInteractive ==
    /\ Has("Len") /\ ~Returned /\ ~Has("Run")
    /\ prev' = prev
    /\ IF ~inp.interactive
       THEN /\ out' = Put(out, "Run", "off")
            /\ ds' = ds
       ELSE \E terminal \in BOOLEAN :
                IF ~terminal
                THEN /\ out' = Say(Put(out, "Run", "fallback"), "stderr",
                                   "Warning: --interactive requires a terminal")
                     /\ ds' = ds
                ELSE \E r \in PickerResults(Dependencies(ds)) :
                         IF ~r.ok
                         THEN /\ out' = Return(Say(Put(out, "Run", r), "stderr", "Cancelled."),
                                               "nil")
                              /\ ds' = ds
                         ELSE /\ out' = Put(out, "Run", r)
                              /\ ds' = Merge(NewDependencySet(ds.ServiceName), r.selected)
    /\ UNCHANGED <<inp, log, ret, walkVars>>

\* The output stage: the file, if any, and the renderers of the format
RunOutput ==
    /\ Has("Run") /\ ~Returned
    /\ \E created \in BOOLEAN :
           out' = IF ~created THEN Return(out, "cannot create output file")
                  ELSE CASE inp.outputFormat = "summary" ->
                                Return(Say(out, "output", "Summary"), "nil")
                         [] inp.outputFormat = "netpol" ->
                                Return(Say(out, "output", "NetworkPolicy"), "nil")
                         [] inp.outputFormat = "per-service" ->
                                Return(Say(out, "output", "PerServiceNetworkPolicy"), "nil")
                         [] inp.outputFormat = "all" ->
                                Return(Say(Say(Say(out, "output", "Summary"), "output", "---"),
                                           "output", "NetworkPolicy"), "nil")
                         [] OTHER -> Return(out, "unknown format")
    /\ UNCHANGED <<inp, setVars, walkVars>>

NextRun ==
    \/ RunStat
    \/ RunWalk
    \/ RunAI
    \/ RunLen
    \/ RunInteractive
    \/ RunOutput

SpecRun == InitRun /\ [][NextRun]_vars

\* The number of times the prefix stands at the head of a description
RECURSIVE LeadingPrefixes(_)
LeadingPrefixes(desc) ==
    IF HasPrefix(desc, sAIPrefix)
    THEN 1 + LeadingPrefixes(SubSeq(desc, Len(sAIPrefix) + 1, Len(desc)))
    ELSE 0

\* The descriptions the answers give, as the model wrote them
AnsweredDescriptions(answers) ==
    { IF a.Description = <<>> THEN a.ServiceType ELSE a.Description : a \in answers }

OutputStageReturns == {"nil", "cannot create output file", "unknown format"}

\* C23: after the AI step every fact that was in the set before it is in
\* the set with the same target, port, protocol, description, confidence
\* and sourceFile; when ai.Analyze fails the set is the set it was, a
\* warning is written, runAnalyze does not return there and what it returns
\* later is what the output stage returns.
C23_AugmentationOnlyAdds ==
    /\ (Has("AI") /\ ~Has("Run")) =>
           /\ \A i \in DOMAIN prev.deps : \E j \in DOMAIN ds.deps : ds.deps[j] = prev.deps[i]
           /\ (Has("Analyze") /\ out["Analyze"].err # "nil") => ds = prev
    /\ (Has("Analyze") /\ out["Analyze"].err # "nil") =>
           /\ "stderr" \in DOMAIN out
           /\ \E k \in DOMAIN out["stderr"] : out["stderr"][k] = "Warning: AI analysis skipped"
           /\ ~Has("Len") => ~Returned
           /\ Returned => out["runAnalyze"] \in OutputStageReturns

\* The AI step added a fact to a set that held facts
C23_Witness ==
    /\ Has("Analyze")
    /\ ~Has("Run")
    /\ out["Analyze"].err = "nil"
    /\ prev.deps # <<>>
    /\ Len(ds.deps) > Len(prev.deps)

Said(stream, line) ==
    stream \in DOMAIN out /\ \E k \in DOMAIN out[stream] : out[stream][k] = line

\* C24: a run whose set is empty after the scan and the AI step returns nil
\* and writes 'No network dependencies found.'; a run whose path does not
\* exist or is not a directory returns an error; no run does both: the
\* line is written only by a run on a directory that returns nil, and a
\* run on a path that is no directory never writes it.
C24_EmptyIsNotAnError ==
    /\ (Has("Len") /\ out["Len"] = 0) =>
           /\ Returned
           /\ out["runAnalyze"] = "nil"
           /\ Said("stdout", "No network dependencies found.")
    /\ (Has("Stat") /\ out["Stat"] # "dir") =>
           /\ Returned
           /\ out["runAnalyze"] \in {"cannot access", "is not a directory"}
           /\ ~Said("stdout", "No network dependencies found.")
    /\ Said("stdout", "No network dependencies found.") =>
           /\ out["Stat"] = "dir"
           /\ Returned
           /\ out["runAnalyze"] = "nil"
           /\ Has("Len")
           /\ out["Len"] = 0
    /\ (Returned /\ out["runAnalyze"] \in {"cannot access", "is not a directory"}) =>
           out["Stat"] # "dir"

\* A run with the AI step whose answers added nothing to an empty scan
C24_Witness ==
    /\ Has("Len")
    /\ out["Len"] = 0
    /\ Has("Analyze")
    /\ out["Analyze"].err = "nil"
    /\ out["asked"] > 0
    /\ Returned

----------------------------------------------------------------------------
(* Walk's error result.                                                    *)

\* C25: the error Walk returns is non-nil exactly when the root cannot be
\* read or walked: it is non-nil when the root itself is reported to the
\* callback with an error, and nil in every other walk, whatever the parsers
\* and the chart rendering answer for the files.
C25_ErrorOnlyWhenRootFails ==
    wpc = "done" => (ret.val.err # "nil" <=> visited[1].err # "nil")

----------------------------------------------------------------------------
(* internal/tui: the picker, and what runAnalyze does with its result.     *)

MaxKeys == 4
MaxItems == 3

\* NewPicker
NewPicker(deps) ==
    [items |-> [i \in DOMAIN deps |-> [dep |-> deps[i], selected |-> TRUE]],
     cursor |-> 0, confirmed |-> FALSE]

\* A plausible bug: the index is compared with the length only
toggleUnchecked(p, i) ==
    IF i < Len(p.items)
    THEN [p EXCEPT !.items = [k \in DOMAIN p.items |->
                                  IF k = ((i + Len(p.items)) % Len(p.items)) + 1
                                  THEN [p.items[k] EXCEPT !.selected = ~@] ELSE p.items[k]]]
    ELSE p

\* (p *Picker) toggle(i), the index counted from 0
toggle(p, i) ==
    IF i >= 0 /\ i < Len(p.items)
    THEN [p EXCEPT !.items[i + 1].selected = ~@]
    ELSE p

selectAll(p) == [p EXCEPT !.items = [k \in DOMAIN p.items |-> [p.items[k] EXCEPT !.selected = TRUE]]]
selectNone(p) == [p EXCEPT !.items = [k \in DOMAIN p.items |-> [p.items[k] EXCEPT !.selected = FALSE]]]

\* (p *Picker) Selected()
RECURSIVE SelectedFrom(_, _)
SelectedFrom(result, items) ==
    IF items = <<>> THEN result
    ELSE SelectedFrom(IF Head(items).selected THEN Append(result, Head(items).dep) ELSE result,
                      Tail(items))
Selected(p) == SelectedFrom(<<>>, p.items)

\* (p *Picker) Update(msg) for a key: the picker and whether tea.Quit is
\* the command returned
Update(p, key) ==
    CASE key \in {"q", "ctrl+c"} -> [p |-> p, quit |-> TRUE]
      [] key = "enter" -> [p |-> [p EXCEPT !.confirmed = TRUE], quit |-> TRUE]
      [] key \in {"up", "k"} ->
             [p |-> IF p.cursor > 0 THEN [p EXCEPT !.cursor = @ - 1] ELSE p, quit |-> FALSE]
      [] key \in {"down", "j"} ->
             [p |-> IF p.cursor < Len(p.items) - 1 THEN [p EXCEPT !.cursor = @ + 1] ELSE p,
              quit |-> FALSE]
      [] key = " " -> [p |-> toggle(p, p.cursor), quit |-> FALSE]
      [] key = "a" -> [p |-> selectAll(p), quit |-> FALSE]
      [] key = "n" -> [p |-> selectNone(p), quit |-> FALSE]
      [] OTHER -> [p |-> p, quit |-> FALSE]

PickerKeys == {"q", "ctrl+c", "enter", "up", "k", "down", "j", " ", "a", "n", "x"}

\* The lists runAnalyze hands to tui.Run: ds.Dependencies() of a set that
\* is not empty
PickerFacts ==
    << Dep(<<>>, sDb, 5432, <<"P", "o", "s", "t", "g", "r", "e", "S", "Q",
        "L">>, "high", sConfigPath).dep,
       Dep(<<>>, sCache, 6379, <<"R", "e", "d", "i", "s">>, "high", sConfigPath).dep,
       Dep(<<>>, sApi, 8080, <<"H", "T", "T", "P", " ", "s", "e", "r", "v", "i", "c",
           "e">>, "medium", sConfigPath).dep,
       Dep(<<>>, sRabbit, 5672, sRabbit, "high", sConfigPath).dep >>
PickerSets ==
    { AddDeps(NewDependencySet(sShop), SubSeq(PickerFacts, 1, n)) : n \in 1..MaxItems }

\* The program is started on the list: ds is the set of the scan, prev
\* keeps what that set held
InitPicker ==
    /\ \E s \in PickerSets :
           /\ ds = s
           /\ prev = s
           /\ inp = Dependencies(s)
           /\ out = [pc |-> "running", p |-> NewPicker(Dependencies(s)),
                     before |-> NewPicker(Dependencies(s)), event |-> <<"start">>, keys |-> 0]
    /\ ret = Call("none", <<>>, <<>>)
    /\ log = <<>>
    /\ WalkIdle

\* A key event reaches Update; with tea.Quit the program ends
PickerKey ==
    /\ out["pc"] = "running"
    /\ out["keys"] < MaxKeys
    /\ \E key \in PickerKeys :
           out' = Put(Put(Put(Put(Put(out, "p", Update(out["p"], key).p), "before", out["p"]),
                              "event", <<"key", key>>),
                          "keys", out["keys"] + 1),
                      "pc", IF Update(out["p"], key).quit THEN "quit" ELSE "running")
    /\ UNCHANGED <<inp, setVars, walkVars>>

\* toggle(i) called with any index, as the tests of the package do
PickerToggle ==
    /\ out["pc"] = "running"
    /\ out["keys"] < MaxKeys
    /\ \E i \in (0 - 1)..(MaxItems + 1) :
           out' = Put(Put(Put(Put(out, "p", toggle(out["p"], i)), "before", out["p"]),
                          "event", <<"toggle", i>>),
                      "keys", out["keys"] + 1)
    /\ UNCHANGED <<inp, setVars, walkVars>>

\* tui.Run returns: nil, false without Enter or when the program failed
PickerReturn ==
    /\ out["pc"] = "quit"
    /\ \E programErr \in BOOLEAN :
           out' = Put(Put(out, "pc", "returned"), "Run",
                      IF programErr \/ ~out["p"].confirmed
                      THEN [selected |-> <<>>, ok |-> FALSE]
                      ELSE [selected |-> Selected(out["p"]), ok |-> TRUE])
    /\ UNCHANGED <<inp, setVars, walkVars>>

\* runAnalyze with the result: Cancelled, or the filtered set and the output
PickerUse ==
    /\ out["pc"] = "returned"
    /\ IF ~out["Run"].ok
       THEN /\ out' = Return(Say(Put(out, "pc", "done"), "stderr", "Cancelled."), "nil")
            /\ ds' = ds
       ELSE /\ ds' = Merge(NewDependencySet(ds.ServiceName), out["Run"].selected)
            /\ out' = Return(Say(Put(out, "pc", "done"), "output",
                                 Merge(NewDependencySet(ds.ServiceName), out["Run"].selected)),
                             "nil")
    /\ UNCHANGED <<inp, log, prev, ret, walkVars>>

NextPicker ==
    \/ PickerKey
    \/ PickerToggle
    \/ PickerReturn
    \/ PickerUse

SpecPicker == InitPicker /\ [][NextPicker]_vars

Flags(p) == [k \in DOMAIN p.items |-> p.items[k].selected]
ItemFacts(p) == [k \in DOMAIN p.items |-> p.items[k].dep]
SelectedIndices(p) == { k \in DOMAIN p.items : p.items[k].selected }

\* C26: on every sequence of key events the facts of the picker are the
\* list it was given and the set of the scan keeps what it held; all facts
\* start selected; the flags change only by a toggle of an index in range
\* (that one flag), by select-all and by select-none, and a toggle out of
\* range changes nothing; the cursor is an index of the list; Selected() is
\* the facts selected now in the order of the list; tui.Run gives a
\* selection only when Enter was the last key, and without it no filtered
\* set is made and nothing is rendered.
C26_PickerFilters ==
    /\ ItemFacts(out["p"]) = inp
    /\ prev.deps = [i \in DOMAIN prev.deps |-> FillSource(PickerFacts[i], sShop)]
    /\ inp = Dependencies(prev)
    /\ out["keys"] = 0 => \A k \in DOMAIN inp : out["p"].items[k].selected
    /\ out["p"].cursor \in 0..(Len(inp) - 1)
    /\ Selected(out["p"]) = PickFrom(inp, SelectedIndices(out["p"]), 1)
    /\ Flags(out["p"]) # Flags(out["before"]) =>
           \/ /\ out["event"][1] = "toggle" \/ out["event"] = <<"key", " ">>
              /\ \E i \in DOMAIN inp :
                     /\ i - 1 = IF out["event"][1] = "toggle" THEN out["event"][2]
                                ELSE out["before"].cursor
                     /\ Flags(out["p"]) = [Flags(out["before"]) EXCEPT ![i] = ~@]
           \/ out["event"] = <<"key", "a">> /\ \A k \in DOMAIN inp : Flags(out["p"])[k]
           \/ out["event"] = <<"key", "n">> /\ \A k \in DOMAIN inp : ~Flags(out["p"])[k]
    /\ (out["event"][1] = "toggle" /\ out["event"][2] \notin 0..(Len(inp) - 1)) =>
           out["p"] = out["before"]
    /\ "Run" \in DOMAIN out =>
           /\ out["Run"].ok => (out["event"] = <<"key", "enter">>
                                /\ out["Run"].selected = Selected(out["p"]))
           /\ out["event"] \in {<<"key", "q">>, <<"key", "ctrl+c">>} => ~out["Run"].ok
    /\ out["pc"] = "done" =>
           IF out["Run"].ok
           THEN /\ ds.deps = out["Run"].selected
                /\ out["output"] = <<ds>>
           ELSE /\ ds = prev
                /\ "output" \notin DOMAIN out
                /\ Said("stderr", "Cancelled.")

\* Of three facts the second was deselected, Enter was pressed and the set
\* of the two others was rendered
C26_Witness ==
    /\ out["pc"] = "done"
    /\ Len(inp) = 3
    /\ out["Run"].ok
    /\ ds.deps = <<inp[1], inp[3]>>
    /\ prev.deps # ds.deps

----------------------------------------------------------------------------
(* Claims about the rules of the per-service policies.                     *)

\* C27: in per-service mode every ingress rule has a ports restriction:
\* each "from:" rule of each document holds a "ports:" line with a port, so
\* a fact with port <= 0 gives no rule that opens every port of its target.
C27_IngressRulesPortScoped ==
    ret.op = "PerServiceNetworkPolicy" =>
        \A k \in DOMAIN DocsOf(ret.val) :
            \A r \in Range(FromRules(DocsOf(ret.val)[k])) :
                HasLine(r, "      ports:\n") /\ PortArgs(r) # {}

(* Per-service policies of services whose names sanitizeName changes.      *)

MaxPeerFacts == 2

sWebUpper == <<"W", "e", "b">>
sDbDotProd == <<"d", "b", ".", "p", "r", "o", "d">>
sDbDashProd == <<"d", "b", "-", "p", "r", "o", "d">>

PeerNames == {sWeb, sWebUpper, sApi, sDbDotProd, sDbDashProd}

PeerFacts ==
    { Fact(p[1], p[2], 5432, sTCP, "PostgreSQL", "high", "docker-compose.yml") :
          p \in { q \in PeerNames \X PeerNames : q[1] # q[2] } }

InitPeers ==
    FunInit({ Merge(NewDependencySet(sShop), q) : q \in SeqsUpTo(PeerFacts, MaxPeerFacts) })

\* renderer.PerServiceNetworkPolicy(ds) on the set
DoRenderPeers ==
    /\ ~Has("PerServiceNetworkPolicy")
    /\ out' = Applied("PerServiceNetworkPolicy", PerServiceNetworkPolicy(inp))
    /\ UNCHANGED <<inp, setVars, walkVars>>

NextPeers == DoRenderPeers

SpecPeers == InitPeers /\ [][NextPeers]_vars

\* The services of the set in the order of their documents
PeerOrder == SortedStrings(AllServices(inp.deps))
PeerDoc(svc) ==
    DocsOf(out["PerServiceNetworkPolicy"])[CHOOSE k \in DOMAIN PeerOrder : PeerOrder[k] = svc]

\* The label of the pods a policy document applies to, and the label of
\* the pods a rule selects
PolicyLabel(doc) == ArgOfLine(doc, "      app: %s\n")
RuleLabel(rule) == ArgOfLine(rule, "              app: %s\n")

\* C28: in per-service mode, for every fact (S, T, port > 0), the rule of
\* S's policy that allows egress to T selects the pod label that the
\* podSelector of T's policy has, and the rule of T's policy that allows
\* ingress from S selects the pod label that the podSelector of S's policy
\* has, whatever characters the names hold.
C28_PeerLabelsMatch ==
    Has("PerServiceNetworkPolicy") =>
        \A i \in DOMAIN inp.deps :
            LET dep == inp.deps[i] IN
            /\ \E r \in Range(AllowToRules(PeerDoc(dep.Source))) :
                   /\ r = EgressRuleFor(dep.Target, dep.Port, dep.Protocol)
                   /\ RuleLabel(r) = PolicyLabel(PeerDoc(dep.Target))
            /\ \E r \in Range(FromRules(PeerDoc(dep.Target))) :
                   /\ IsPrefix(renderIngressFrom(dep.Source), r)
                   /\ RuleLabel(r) = PolicyLabel(PeerDoc(dep.Source))

\* C29: in per-service mode the documents of distinct services have
\* distinct metadata.name values and distinct podSelector labels.
C29_DistinctPolicyNames ==
    Has("PerServiceNetworkPolicy") =>
        \A k, l \in DOMAIN DocsOf(out["PerServiceNetworkPolicy"]) :
            k # l =>
                /\ ArgOfLine(DocsOf(out["PerServiceNetworkPolicy"])[k], "  name: %s-netpol\n")
                     # ArgOfLine(DocsOf(out["PerServiceNetworkPolicy"])[l],
                                 "  name: %s-netpol\n")
                /\ PolicyLabel(DocsOf(out["PerServiceNetworkPolicy"])[k])
                     # PolicyLabel(DocsOf(out["PerServiceNetworkPolicy"])[l])

----------------------------------------------------------------------------
(* Two runs on the same files.                                             *)

\* The sorted listing of a scan whose one file gave the facts
ListingOf(deps) == Dependencies(AddDeps(NewDependencySet(sShop), deps))

\* C30: the result of a scan depends on the files alone: two runs on the
\* same application.properties give the same sorted listing, description
\* and confidence of every key included, and so the same policies, whatever
\* order the iteration over the map of the properties takes in each.
C30_ScanIsDeterministic ==
    (Has("parseSpringProperties") /\ Has("parseSpringProperties again")) =>
        /\ ListingOf(out["parseSpringProperties"].deps)
             = ListingOf(out["parseSpringProperties again"].deps)
        /\ PerServiceNetworkPolicy(AddDeps(NewDependencySet(sShop),
                                           out["parseSpringProperties"].deps))
             = PerServiceNetworkPolicy(AddDeps(NewDependencySet(sShop),
                                               out["parseSpringProperties again"].deps))

====
